---- MODULE Spec2Model ----
(***************************************************************************)
(* Verification model of the Aadhaar analytics repository.                 *)
(*                                                                         *)
(*   ComprehensiveAadhaarAnalytics  (src/run_advanced_analytics.py)        *)
(*   AadhaarDataAnalyzer            (src/aadhaar_data_analysis.py)         *)
(*   AdvancedAadhaarAnalytics       (src/advanced_analytics.py)            *)
(*   AadhaarAPIClient               (src/api_integration.py)               *)
(*                                                                         *)
(* A pandas DataFrame is a sequence of rows; a row is a record whose field *)
(* "state" is the index (the region identifier) and whose other fields are *)
(* the columns.  A float is an exact rational [n, d]: d = 0 encodes the    *)
(* IEEE values NaN (0/0), +inf (1/0) and -inf (-1/0).                      *)
(***************************************************************************)
EXTENDS Integers, Sequences, FiniteSets, TLC

VARIABLES
    biometric_data,     \* the loaded biometric rows
    demographic_data,   \* the loaded demographic rows
    enrollment_data,    \* the loaded enrollment rows
    lib,                \* what the fitted library models return on this data;
                        \* for the API client, the requests sent so far
    state_performance,  \* data['state_performance'], the region metric table
    results,            \* ComprehensiveAadhaarAnalytics.results
    problems_found,     \* AadhaarDataAnalyzer.problems_found
    locals,             \* local tables of the handler that ran last
    console,            \* the notices printed so far
    pc                  \* the handler about to run

vars == <<biometric_data, demographic_data, enrollment_data, lib,
          state_performance, results, problems_found, locals, console, pc>>

----------------------------------------------------------------------------
(* Bounds of the model *)

\* region identifiers are 1..MaxRegions in the aggregation and ratio inputs
MaxRegions == 2
\* raw rows over the three datasets together in those inputs
MaxRows == 3
\* region identifiers are 1..MaxRatioRegions in the inputs of the ratio step
MaxRatioRegions == 3
\* regions 1..n, n up to MaxZRegions, in the inputs of the Z-score detector
MaxZRegions == 6
\* regions 1..n, n up to MaxIQRRegions, in the inputs of the IQR detector
MaxIQRRegions == 6
\* regions 1..n, n up to MaxIsoRegions, in the inputs of the isolation forest
MaxIsoRegions == 11
\* regions 1..n, n up to MaxRunRegions, in the inputs of a whole run
MaxRunRegions == 22
\* the biometric rows of a whole run span up to MaxMonths months
MaxMonths == 10
\* regions 1..n, n up to MaxAnalysisRegions, in the inputs of the complete
\* analysis
MaxAnalysisRegions == 6
\* regions 1..n, n up to MaxAdvancedRegions, in the inputs of the forecast
\* handler of the advanced analytics class
MaxAdvancedRegions == 3
\* regions 1..n, n up to MaxRerunRegions, in the inputs of a repeated clustering
MaxRerunRegions == 9
\* the clustering handler is invoked up to MaxInvocations times on an object
MaxInvocations == 2
\* regions 1..n, n up to MaxTieRegions, in the inputs with two regions of
\* equal anomaly score
MaxTieRegions == 10

\* regions 1..n, n up to MaxCleanRegions, in the inputs with division by zero
MaxCleanRegions == 6

\* regions 1..n, n up to MaxClusterRegions, in the inputs of the clustering
\* engine
MaxClusterRegions == 10

\* regions 1..n, n up to MaxOrderRegions, and at most MaxCalls invocations
\* of handlers, in the runs that invoke the handlers in any order
MaxOrderRegions == 7

MaxCalls == 3

\* regions 1..n, n up to MaxSpatialRegions, in the inputs of the spatial
\* comparison
MaxSpatialRegions == 41

\* the longest states_list given to fetch_state_wise_data
MaxStates == 3

----------------------------------------------------------------------------
(* Floats *)

Abs(x) == IF x < 0 THEN -x ELSE x

Sign(x) == IF x > 0 THEN 1 ELSE IF x < 0 THEN -1 ELSE 0

RECURSIVE GCD(_, _)
GCD(a, b) == IF b = 0 THEN a ELSE GCD(b, a % b)

\* the float n/d in lowest terms, with a positive denominator when finite
Rat(n, d) ==
    IF d = 0 THEN [n |-> Sign(n), d |-> 0]
    ELSE LET g == GCD(Abs(n), Abs(d))
             s == Sign(d)
         IN  [n |-> (s * n) \div g, d |-> (s * d) \div g]

NaN == [n |-> 0, d |-> 0]

Zero == [n |-> 0, d |-> 1]

F(x) == [n |-> x, d |-> 1]

IsNaN(x) == x.d = 0 /\ x.n = 0

IsInf(x) == x.d = 0 /\ x.n # 0

FAdd(a, b) ==
    IF IsNaN(a) \/ IsNaN(b) THEN NaN
    ELSE IF a.d = 0 /\ b.d = 0 THEN (IF a.n = b.n THEN a ELSE NaN)
    ELSE IF a.d = 0 THEN a
    ELSE IF b.d = 0 THEN b
    ELSE Rat(a.n * b.d + b.n * a.d, a.d * b.d)

FNeg(a) == [n |-> -a.n, d |-> a.d]

FSub(a, b) == FAdd(a, FNeg(b))

FMul(a, b) ==
    IF IsNaN(a) \/ IsNaN(b) THEN NaN
    ELSE IF a.d = 0 \/ b.d = 0 THEN Rat(Sign(a.n) * Sign(b.n), 0)
    ELSE Rat(a.n * b.n, a.d * b.d)

FDiv(a, b) ==
    IF IsNaN(a) \/ IsNaN(b) THEN NaN
    ELSE IF a.d = 0 THEN (IF b.d = 0 THEN NaN
                          ELSE Rat(a.n * (IF b.n < 0 THEN -1 ELSE 1), 0))
    ELSE IF b.d = 0 THEN Zero
    ELSE Rat(a.n * b.d, a.d * b.n)

\* a < b as IEEE compares: false whenever one side is NaN
FLess(a, b) ==
    /\ ~IsNaN(a)
    /\ ~IsNaN(b)
    /\ IF a.d = 0 /\ b.d = 0 THEN a.n < b.n
       ELSE IF a.d = 0 THEN a.n < 0
       ELSE IF b.d = 0 THEN b.n > 0
       ELSE a.n * b.d < b.n * a.d

FGreater(a, b) == FLess(b, a)

----------------------------------------------------------------------------
(* Sequences and frames *)

\* the date of a row whose date text did not parse (errors='coerce'); the
\* months are numbered from 1
NaT == 0

RECURSIVE SortSet(_)
SortSet(S) ==
    IF S = {} THEN <<>>
    ELSE LET m == CHOOSE x \in S : \A y \in S : x <= y
         IN  <<m>> \o SortSet(S \ {m})

SeqsUpTo(S, n) == UNION {[1..k -> S] : k \in 0..n}

Range(s) == {s[i] : i \in DOMAIN s}

\* the region identifiers a frame holds
States(frame) == {frame[i].state : i \in DOMAIN frame}

\* the rows of one group of groupby('state')
Group(frame, k) == SelectSeq(frame, LAMBDA r : r.state = k)

RECURSIVE SumCol(_, _)
SumCol(rows, c) ==
    IF rows = <<>> THEN 0 ELSE Head(rows)[c] + SumCol(Tail(rows), c)

RECURSIVE SumSqCol(_, _)
SumSqCol(rows, c) ==
    IF rows = <<>> THEN 0
    ELSE Head(rows)[c] * Head(rows)[c] + SumSqCol(Tail(rows), c)

\* Series.sum() of one group
AggSum(rows, c) == F(SumCol(rows, c))

\* Series.mean() of one group
AggMean(rows, c) == FDiv(F(SumCol(rows, c)), F(Len(rows)))

\* Series.std() of one group (sample standard deviation, ddof = 1), held as
\* its square: NaN for a group of one row
AggStd(rows, c) ==
    LET n == Len(rows)
    IN  Rat(n * SumSqCol(rows, c) - SumCol(rows, c) * SumCol(rows, c),
            n * (n - 1))

\* DataFrame.fillna(0)
FillNaMissing(frame) == frame

FillNa(frame) ==
    [i \in DOMAIN frame |->
        [c \in DOMAIN frame[i] |->
            IF c = "state" THEN frame[i][c]
            ELSE IF IsNaN(frame[i][c]) THEN Zero ELSE frame[i][c]]]

NullRow(cols) == [c \in cols |-> NaN]

\* the rows a join makes of the left rows ls and the right rows rs of one key
JoinKey(k, ls, rs, lcols, rcols) ==
    IF rs = <<>> THEN [i \in 1..Len(ls) |-> ls[i] @@ NullRow(rcols)]
    ELSE IF ls = <<>> THEN [i \in 1..Len(rs) |-> rs[i] @@ NullRow(lcols)]
    ELSE [i \in 1..(Len(ls) * Len(rs)) |->
            ls[((i - 1) \div Len(rs)) + 1] @@ rs[((i - 1) % Len(rs)) + 1]]

RECURSIVE JoinKeys(_, _, _, _, _)
JoinKeys(keys, left, right, lcols, rcols) ==
    IF keys = <<>> THEN <<>>
    ELSE JoinKey(Head(keys), Group(left, Head(keys)), Group(right, Head(keys)),
                 lcols, rcols)
         \o JoinKeys(Tail(keys), left, right, lcols, rcols)

\* pd.merge(left, right, left_index=True, right_index=True, how='inner')
MergeInner(left, right, lcols, rcols) ==
    JoinKeys(SortSet(States(left) \cap States(right)), left, right, lcols, rcols)

\* pd.merge(left, right, left_index=True, right_index=True, how='outer')
MergeOuter(left, right, lcols, rcols) ==
    JoinKeys(SortSet(States(left) \cup States(right)), left, right, lcols, rcols)

SetMin(S) == CHOOSE x \in S : \A y \in S : x <= y

SetMax(S) == CHOOSE x \in S : \A y \in S : x >= y

\* the index of a frame as a list
Index(frame) == [i \in DOMAIN frame |-> frame[i].state]

\* DataFrame.head(n)
FrameHead(frame, n) ==
    SubSeq(frame, 1, IF Len(frame) < n THEN Len(frame) ELSE n)

\* one entry of problems_found: the text of the message and the list of
\* regions formatted into it (empty when the message names none)
Finding(text, regions) == [text |-> text, regions |-> regions]

\* the integer values of a column of whole numbers
ColumnValues(frame, c) == [i \in DOMAIN frame |-> frame[i][c].n]

RECURSIVE SumSeq(_)
SumSeq(s) == IF s = <<>> THEN 0 ELSE Head(s) + SumSeq(Tail(s))

SumSqSeq(s) == SumSeq([i \in DOMAIN s |-> s[i] * s[i]])

\* the values of s in ascending order
RECURSIVE InsertValue(_, _)
InsertValue(sorted, v) ==
    IF sorted = <<>> THEN <<v>>
    ELSE IF v < Head(sorted) THEN <<v>> \o sorted
         ELSE <<Head(sorted)>> \o InsertValue(Tail(sorted), v)

RECURSIVE SortAscending(_)
SortAscending(s) ==
    IF s = <<>> THEN <<>> ELSE InsertValue(SortAscending(Tail(s)), Head(s))

----------------------------------------------------------------------------
(* ComprehensiveAadhaarAnalytics: the aggregation layer *)

BioAggCols == {"bio_youth_sum", "bio_youth_mean", "bio_youth_std",
               "bio_adult_sum", "bio_adult_mean", "bio_adult_std"}

DemoAggCols == {"demo_youth_sum", "demo_youth_mean", "demo_youth_std",
                "demo_adult_sum", "demo_adult_mean", "demo_adult_std"}

EnrollAggCols == {"enroll_child_sum", "enroll_child_mean", "enroll_child_std",
                  "enroll_youth_sum", "enroll_youth_mean", "enroll_youth_std",
                  "enroll_adult_sum", "enroll_adult_mean", "enroll_adult_std"}

\* data['biometric'].groupby('state').agg({...: ['sum','mean','std']}).fillna(0)
bio_agg(data) ==
    LET keys == SortSet(States(data))
    IN  FillNa([i \in 1..Len(keys) |->
            LET g == Group(data, keys[i])
            IN  [state |-> keys[i],
                 bio_youth_sum  |-> AggSum(g, "bio_age_5_17"),
                 bio_youth_mean |-> AggMean(g, "bio_age_5_17"),
                 bio_youth_std  |-> AggStd(g, "bio_age_5_17"),
                 bio_adult_sum  |-> AggSum(g, "bio_age_17_"),
                 bio_adult_mean |-> AggMean(g, "bio_age_17_"),
                 bio_adult_std  |-> AggStd(g, "bio_age_17_")]])

\* data['demographic'].groupby('state').agg({...}).fillna(0)
demo_agg(data) ==
    LET keys == SortSet(States(data))
    IN  FillNa([i \in 1..Len(keys) |->
            LET g == Group(data, keys[i])
            IN  [state |-> keys[i],
                 demo_youth_sum  |-> AggSum(g, "demo_age_5_17"),
                 demo_youth_mean |-> AggMean(g, "demo_age_5_17"),
                 demo_youth_std  |-> AggStd(g, "demo_age_5_17"),
                 demo_adult_sum  |-> AggSum(g, "demo_age_17_"),
                 demo_adult_mean |-> AggMean(g, "demo_age_17_"),
                 demo_adult_std  |-> AggStd(g, "demo_age_17_")]])

\* data['enrollment'].groupby('state').agg({...}).fillna(0)
enroll_agg(data) ==
    LET keys == SortSet(States(data))
    IN  FillNa([i \in 1..Len(keys) |->
            LET g == Group(data, keys[i])
            IN  [state |-> keys[i],
                 enroll_child_sum  |-> AggSum(g, "age_0_5"),
                 enroll_child_mean |-> AggMean(g, "age_0_5"),
                 enroll_child_std  |-> AggStd(g, "age_0_5"),
                 enroll_youth_sum  |-> AggSum(g, "age_5_17"),
                 enroll_youth_mean |-> AggMean(g, "age_5_17"),
                 enroll_youth_std  |-> AggStd(g, "age_5_17"),
                 enroll_adult_sum  |-> AggSum(g, "age_18_greater"),
                 enroll_adult_mean |-> AggMean(g, "age_18_greater"),
                 enroll_adult_std  |-> AggStd(g, "age_18_greater")]])

\* total_bio / (total_demo + 1)
bio_demo_ratio(total_bio, total_demo) ==
    FDiv(total_bio, FAdd(total_demo, F(1)))

\* (total_bio + total_demo) / (total_enroll + 1)
update_enroll_ratio(total_bio, total_demo, total_enroll) ==
    FDiv(FAdd(total_bio, total_demo), FAdd(total_enroll, F(1)))

\* the derived metrics and performance ratios of one merged row
DerivedMetrics(r) ==
    LET total_bio    == FAdd(r.bio_youth_sum, r.bio_adult_sum)
        total_demo   == FAdd(r.demo_youth_sum, r.demo_adult_sum)
        total_enroll == FAdd(FAdd(r.enroll_child_sum, r.enroll_youth_sum),
                             r.enroll_adult_sum)
    IN  [total_bio    |-> total_bio,
         total_demo   |-> total_demo,
         total_enroll |-> total_enroll,
         bio_demo_ratio      |-> bio_demo_ratio(total_bio, total_demo),
         update_enroll_ratio |-> update_enroll_ratio(total_bio, total_demo,
                                                     total_enroll)]

\* _create_state_performance_data: the value stored in data['state_performance']
CreateStatePerformanceData(bio, demo, enroll) ==
    LET m1 == MergeOuter(bio_agg(bio), demo_agg(demo), BioAggCols, DemoAggCols)
        m2 == MergeOuter(m1, enroll_agg(enroll),
                         BioAggCols \cup DemoAggCols, EnrollAggCols)
        filled == FillNa(m2)
    IN  [i \in DOMAIN filled |-> filled[i] @@ DerivedMetrics(filled[i])]

\* load_data: the frames are loaded; build the region metric table
load_data ==
    /\ pc = "load_data"
    /\ state_performance' = CreateStatePerformanceData(
            biometric_data, demographic_data, enrollment_data)
    /\ console' = Append(console, "Data loaded successfully")
    /\ pc' = "technique_1"
    /\ UNCHANGED <<biometric_data, demographic_data, enrollment_data, lib,
                   results, problems_found, locals>>

----------------------------------------------------------------------------
(* AadhaarDataAnalyzer.ratio_efficiency_analysis *)

\* rows sorted on a float column by insertion, ties in their given order
RECURSIVE InsertRow(_, _, _, _)
InsertRow(sorted, r, c, ascending) ==
    IF sorted = <<>> THEN <<r>>
    ELSE IF (IF ascending THEN FLess(r[c], Head(sorted)[c])
                          ELSE FGreater(r[c], Head(sorted)[c]))
         THEN <<r>> \o sorted
         ELSE <<Head(sorted)>> \o InsertRow(Tail(sorted), r, c, ascending)

RECURSIVE SortValues(_, _, _)
SortValues(frame, c, ascending) ==
    IF frame = <<>> THEN <<>>
    ELSE InsertRow(SortValues(SubSeq(frame, 1, Len(frame) - 1), c, ascending),
                   frame[Len(frame)], c, ascending)

\* the places at which a row can enter an ascending frame: after the rows of
\* a lower value and before those of a higher one
InsertPlaces(sorted, r, c) ==
    {k \in 0..Len(sorted) :
        /\ k = 0 \/ ~FGreater(sorted[k][c], r[c])
        /\ k = Len(sorted) \/ ~FLess(sorted[k + 1][c], r[c])}

\* sort_values(c) with the default kind, quicksort, which is not stable:
\* every ascending order of the rows, rows of equal value in any order
RECURSIVE SortOrders(_, _)
SortOrders(frame, c) ==
    IF frame = <<>> THEN {<<>>}
    ELSE UNION {{SubSeq(sorted, 1, k) \o <<frame[Len(frame)]>>
                    \o SubSeq(sorted, k + 1, Len(sorted)) :
                    k \in InsertPlaces(sorted, frame[Len(frame)], c)} :
                sorted \in SortOrders(SubSeq(frame, 1, Len(frame) - 1), c)}

BioTotalCols == {"bio_age_5_17", "bio_age_17_", "total_bio"}

DemoTotalCols == {"demo_age_5_17", "demo_age_17_", "total_demo"}

EnrollTotalCols == {"age_0_5", "age_5_17", "age_18_greater", "total_enroll"}

\* biometric_data.groupby('state').agg(sum), with the column total_bio
bio_totals(data) ==
    LET keys == SortSet(States(data))
    IN  [i \in 1..Len(keys) |->
            LET g == Group(data, keys[i])
            IN  [state |-> keys[i],
                 bio_age_5_17 |-> AggSum(g, "bio_age_5_17"),
                 bio_age_17_  |-> AggSum(g, "bio_age_17_"),
                 total_bio    |-> FAdd(AggSum(g, "bio_age_5_17"),
                                       AggSum(g, "bio_age_17_"))]]

\* demographic_data.groupby('state').agg(sum), with the column total_demo
demo_totals(data) ==
    LET keys == SortSet(States(data))
    IN  [i \in 1..Len(keys) |->
            LET g == Group(data, keys[i])
            IN  [state |-> keys[i],
                 demo_age_5_17 |-> AggSum(g, "demo_age_5_17"),
                 demo_age_17_  |-> AggSum(g, "demo_age_17_"),
                 total_demo    |-> FAdd(AggSum(g, "demo_age_5_17"),
                                        AggSum(g, "demo_age_17_"))]]

\* enrollment_data.groupby('state').agg(sum), with the column total_enroll
enroll_totals(data) ==
    LET keys == SortSet(States(data))
    IN  [i \in 1..Len(keys) |->
            LET g == Group(data, keys[i])
            IN  [state |-> keys[i],
                 age_0_5        |-> AggSum(g, "age_0_5"),
                 age_5_17       |-> AggSum(g, "age_5_17"),
                 age_18_greater |-> AggSum(g, "age_18_greater"),
                 total_enroll   |-> FAdd(FAdd(AggSum(g, "age_0_5"),
                                              AggSum(g, "age_5_17")),
                                         AggSum(g, "age_18_greater"))]]

\* the three totals outer-merged on the region and zero-filled
MergedTotals(bio, demo, enroll) ==
    FillNa(MergeOuter(
        MergeOuter(bio_totals(bio), demo_totals(demo),
                   BioTotalCols, DemoTotalCols),
        enroll_totals(enroll),
        BioTotalCols \cup DemoTotalCols, EnrollTotalCols))

bio_to_enroll_ratio(r) == FDiv(r.total_bio, FAdd(r.total_enroll, F(1)))

demo_to_enroll_ratio(r) == FDiv(r.total_demo, FAdd(r.total_enroll, F(1)))

\* the ratio with the + 1 of the denominator left out
update_to_enroll_ratio_unsafe(r) ==
    FDiv(FAdd(r.total_bio, r.total_demo), r.total_enroll)

update_to_enroll_ratio(r) ==
    FDiv(FAdd(r.total_bio, r.total_demo), FAdd(r.total_enroll, F(1)))

bio_to_demo_ratio(r) == FDiv(r.total_bio, FAdd(r.total_demo, F(1)))

\* the thresholds of the two rules
HighUpdateRatio == 2

ExtremeBioDemoUpper == 5

ExtremeBioDemoLower == Rat(2, 10)

\* update_to_enroll_ratio >= 2.0, the comparison made inclusive
IsHighUpdateRatioInclusive(r) ==
    ~FLess(r.update_to_enroll_ratio, F(HighUpdateRatio))

\* update_to_enroll_ratio > 2.0
IsHighUpdateRatio(r) ==
    FGreater(r.update_to_enroll_ratio, F(HighUpdateRatio))

\* (bio_to_demo_ratio > 5) | (bio_to_demo_ratio < 0.2)
IsExtremeBioDemo(r) ==
    \/ FGreater(r.bio_to_demo_ratio, F(ExtremeBioDemoUpper))
    \/ FLess(r.bio_to_demo_ratio, ExtremeBioDemoLower)

HighUpdateFinding ==
    Finding("States with high update-to-enrollment ratios indicating data quality issues",
            <<>>)

ExtremeBioDemoFinding ==
    Finding("Extreme biometric-to-demographic ratios detected", <<>>)

\* the merged totals with the four ratio columns
RatioAnalysis(bio, demo, enroll) ==
    LET merged == MergedTotals(bio, demo, enroll)
    IN  [i \in DOMAIN merged |->
            merged[i] @@
            [bio_to_enroll_ratio    |-> bio_to_enroll_ratio(merged[i]),
             demo_to_enroll_ratio   |-> demo_to_enroll_ratio(merged[i]),
             update_to_enroll_ratio |-> update_to_enroll_ratio(merged[i]),
             bio_to_demo_ratio      |-> bio_to_demo_ratio(merged[i])]]

\* the local frames of the ratio step
RatioFrames(ratio_analysis) ==
    [ratio_analysis    |-> ratio_analysis,
     high_update_ratio |->
         SortValues(SelectSeq(ratio_analysis, IsHighUpdateRatio),
                    "update_to_enroll_ratio", FALSE),
     extreme_bio_demo  |-> SelectSeq(ratio_analysis, IsExtremeBioDemo)]

\* one finding for every flagged region
RatioFindingsPerRegion(frames) ==
    [i \in DOMAIN frames.high_update_ratio |-> HighUpdateFinding]
    \o [i \in DOMAIN frames.extreme_bio_demo |-> ExtremeBioDemoFinding]

\* the findings the ratio step appends, in the order it appends them
RatioFindings(frames) ==
    (IF frames.high_update_ratio # <<>> THEN <<HighUpdateFinding>> ELSE <<>>)
    \o (IF frames.extreme_bio_demo # <<>> THEN <<ExtremeBioDemoFinding>>
        ELSE <<>>)

ratio_efficiency_analysis ==
    /\ pc = "ratio_efficiency_analysis"
    /\ locals' = RatioFrames(RatioAnalysis(biometric_data, demographic_data,
                                           enrollment_data))
    /\ problems_found' = problems_found \o RatioFindings(locals')
    /\ console' = Append(console, "STEP 4: RATIO & EFFICIENCY ANALYSIS")
    /\ pc' = "spatial_comparison"
    /\ UNCHANGED <<biometric_data, demographic_data, enrollment_data, lib,
                   state_performance, results>>

----------------------------------------------------------------------------
(* AadhaarDataAnalyzer.anomaly_detection *)

\* the score with the sample standard deviation (divisor n - 1)
ZScoreSqSample(values, i) ==
    LET n  == Len(values)
        s  == SumSeq(values)
        ss == SumSqSeq(values)
        dx == n * values[i] - s
    IN  Rat(dx * dx * (n - 1), n * (n * ss - s * s))

\* np.abs(stats.zscore(values))[i], held as its square: with n values of sum
\* s and sum of squares ss, (x - s/n)^2 / (ss/n - (s/n)^2); NaN (0/0) when
\* the population standard deviation is zero
ZScoreSq(values, i) ==
    LET n  == Len(values)
        s  == SumSeq(values)
        ss == SumSqSeq(values)
        dx == n * values[i] - s
    IN  Rat(dx * dx, n * ss - s * s)

\* Series.quantile(num/den), linear interpolation between order statistics;
\* NaN for an empty series
Quantile(values, num, den) ==
    LET n      == Len(values)
        sorted == SortAscending(values)
        lo     == (num * (n - 1)) \div den
        fr     == (num * (n - 1)) % den
    IN  IF n = 0 THEN NaN
        ELSE IF fr = 0 THEN F(sorted[lo + 1])
        ELSE Rat(den * sorted[lo + 1] + fr * (sorted[lo + 2] - sorted[lo + 1]),
                 den)

ZScoreThreshold == 2

\* 1.5, the multiple of the inter-quartile range
IQRMultiple == Rat(3, 2)

\* not (z_score <= 2), which a NaN score passes
IsBioOutlierNotBelow(r) ==
    ~(FLess(r.z_score_sq, F(ZScoreThreshold * ZScoreThreshold))
        \/ r.z_score_sq = F(ZScoreThreshold * ZScoreThreshold))

\* z_score > 2
IsBioOutlier(r) ==
    FGreater(r.z_score_sq, F(ZScoreThreshold * ZScoreThreshold))

\* bio_state_totals with its z_score column
BioStateTotals(bio) ==
    LET totals == bio_totals(bio)
        values == ColumnValues(totals, "total_bio")
    IN  [i \in DOMAIN totals |->
            totals[i] @@ [z_score_sq |-> ZScoreSq(values, i)]]

\* the rows at or outside the fences, the comparisons made inclusive
IsDemoOutlierInclusive(r, Q1, Q3) ==
    LET IQR == FSub(Q3, Q1)
    IN  \/ ~FGreater(r.total_demo, FSub(Q1, FMul(IQRMultiple, IQR)))
        \/ ~FLess(r.total_demo, FAdd(Q3, FMul(IQRMultiple, IQR)))

\* (total_demo < Q1 - 1.5 * IQR) | (total_demo > Q3 + 1.5 * IQR)
IsDemoOutlier(r, Q1, Q3) ==
    LET IQR == FSub(Q3, Q1)
    IN  \/ FLess(r.total_demo, FSub(Q1, FMul(IQRMultiple, IQR)))
        \/ FGreater(r.total_demo, FAdd(Q3, FMul(IQRMultiple, IQR)))

\* the rows of demo_state_totals the IQR method selects
DemoOutliers(totals, Q1, Q3) ==
    SelectSeq(totals, LAMBDA r : IsDemoOutlier(r, Q1, Q3))

\* the local frames and values of anomaly_detection
AnomalyFrames(bio_state_totals, demo_state_totals) ==
    LET values == ColumnValues(demo_state_totals, "total_demo")
        Q1 == Quantile(values, 1, 4)
        Q3 == Quantile(values, 3, 4)
    IN  [bio_state_totals  |-> bio_state_totals,
         bio_outliers      |-> SortValues(SelectSeq(bio_state_totals,
                                                    IsBioOutlier),
                                          "z_score_sq", FALSE),
         demo_state_totals |-> demo_state_totals,
         Q1                |-> Q1,
         Q3                |-> Q3,
         IQR               |-> FSub(Q3, Q1),
         demo_outliers     |-> DemoOutliers(demo_state_totals, Q1, Q3)]

ZScoreFindingText == "High biometric update outliers"

IQRFindingText == "Demographic update outliers"

\* the findings anomaly_detection appends, in the order it appends them
AnomalyFindings(frames) ==
    (IF frames.bio_outliers # <<>>
     THEN <<Finding(ZScoreFindingText,
                    Index(FrameHead(frames.bio_outliers, 3)))>>
     ELSE <<>>)
    \o (IF frames.demo_outliers # <<>>
        THEN <<Finding(IQRFindingText, Index(frames.demo_outliers))>>
        ELSE <<>>)

anomaly_detection ==
    /\ pc = "anomaly_detection"
    /\ locals' = AnomalyFrames(BioStateTotals(biometric_data),
                               demo_totals(demographic_data))
    /\ problems_found' = problems_found \o AnomalyFindings(locals')
    /\ console' = Append(console, "STEP 3: ANOMALY DETECTION")
    /\ pc' = "ratio_efficiency_analysis"
    /\ UNCHANGED <<biometric_data, demographic_data, enrollment_data, lib,
                   state_performance, results>>

----------------------------------------------------------------------------
(* AadhaarDataAnalyzer.load_data and data_quality_check *)

\* the date of a row whose date cell is empty in the file (a null value)
MissingDate == -1

\* the column data_type that load_data adds to a frame
WithDataType(df, data_type) ==
    [i \in DOMAIN df |-> df[i] @@ [data_type |-> data_type]]

\* AadhaarDataAnalyzer.load_data: the frames are read and tagged
analyzer_load_data ==
    /\ pc = "analyzer_load_data"
    /\ biometric_data' = WithDataType(biometric_data, "biometric")
    /\ demographic_data' = WithDataType(demographic_data, "demographic")
    /\ enrollment_data' = WithDataType(enrollment_data, "enrollment")
    /\ console' = Append(console, "Loaded records")
    /\ pc' = "data_quality_check"
    /\ UNCHANGED <<lib, state_performance, results, problems_found, locals>>

\* the numeric columns of a dataset, in the order of its file
NumericCols(name) ==
    CASE name = "Biometric" -> <<"bio_age_5_17", "bio_age_17_">>
      [] name = "Demographic" -> <<"demo_age_5_17", "demo_age_17_">>
      [] name = "Enrollment" -> <<"age_0_5", "age_5_17", "age_18_greater">>

\* df.isnull().sum().sum()
NullValues(df) == Cardinality({i \in DOMAIN df : df[i].date = MissingDate})

\* df.duplicated().sum(): the rows equal to an earlier row
DuplicateRows(df) ==
    Cardinality({i \in DOMAIN df : \E j \in 1..(i - 1) : df[j] = df[i]})

\* the columns of negative_counts[negative_counts > 0]
NegativeCols(name, df) ==
    SelectSeq(NumericCols(name), LAMBDA c : \E i \in DOMAIN df : df[i][c] < 0)

\* the finding f"{name}: Negative values in {columns}"
QualityFinding(name, columns) ==
    [text |-> name \o ": Negative values in", columns |-> columns]

\* the loop appending one finding for each column with a negative value
DatasetFindingsPerColumn(name, df) ==
    [i \in DOMAIN NegativeCols(name, df) |->
        QualityFinding(name, <<NegativeCols(name, df)[i]>>)]

\* what one iteration of the loop over the datasets appends
DatasetFindings(name, df) ==
    IF NegativeCols(name, df) # <<>>
    THEN <<QualityFinding(name, NegativeCols(name, df))>>
    ELSE <<>>

\* what one iteration of the loop prints
DatasetQuality(name, df) ==
    [total_records   |-> Len(df),
     null_values     |-> NullValues(df),
     duplicate_rows  |-> DuplicateRows(df),
     unique_states   |-> Cardinality(States(df)),
     negative_counts |-> NegativeCols(name, df)]

data_quality_check ==
    /\ pc = "data_quality_check"
    /\ locals' = [Biometric   |-> DatasetQuality("Biometric", biometric_data),
                  Demographic |-> DatasetQuality("Demographic",
                                                 demographic_data),
                  Enrollment  |-> DatasetQuality("Enrollment",
                                                 enrollment_data)]
    /\ problems_found' = problems_found
                           \o DatasetFindings("Biometric", biometric_data)
                           \o DatasetFindings("Demographic", demographic_data)
                           \o DatasetFindings("Enrollment", enrollment_data)
    /\ console' = Append(console, "STEP 1: DATA QUALITY ASSESSMENT")
    /\ pc' = "trend_analysis"
    /\ UNCHANGED <<biometric_data, demographic_data, enrollment_data, lib,
                   state_performance, results>>

----------------------------------------------------------------------------
(* AadhaarDataAnalyzer.trend_analysis *)

\* pd.to_datetime(df['date'], errors='coerce') and the column month
ToDatetime(df) ==
    [i \in DOMAIN df |->
        [date  |-> IF df[i].date < 1 THEN NaT ELSE df[i].date,
         month |-> IF df[i].date < 1 THEN NaT ELSE df[i].date]
        @@ df[i]]

\* bio_monthly: the sums by (month, state), the keys ascending, rows without
\* a month left out, with the column total_bio
BioMonthly(bio) ==
    LET months == SortSet({bio[i].month : i \in DOMAIN bio} \ {NaT})
        states == SortSet(States(bio))
        keys   == SelectSeq(
                      [k \in 1..(Len(months) * Len(states)) |->
                          <<months[((k - 1) \div Len(states)) + 1],
                            states[((k - 1) % Len(states)) + 1]>>],
                      LAMBDA key : \E i \in DOMAIN bio :
                          bio[i].month = key[1] /\ bio[i].state = key[2])
    IN  [k \in DOMAIN keys |->
            LET g == SelectSeq(bio, LAMBDA r : r.month = keys[k][1]
                                               /\ r.state = keys[k][2])
            IN  [month |-> keys[k][1],
                 state |-> keys[k][2],
                 bio_age_5_17 |-> SumCol(g, "bio_age_5_17"),
                 bio_age_17_  |-> SumCol(g, "bio_age_17_"),
                 total_bio    |-> SumCol(g, "bio_age_5_17")
                                    + SumCol(g, "bio_age_17_")]]

\* groupby('state')['total_bio'].pct_change() at row k: the change relative
\* to the previous row of the same state, NaN at the first row of a state
GrowthRate(bio_monthly, k) ==
    LET earlier == {j \in 1..(k - 1) :
                        bio_monthly[j].state = bio_monthly[k].state}
    IN  IF earlier = {} THEN NaN
        ELSE FDiv(F(bio_monthly[k].total_bio
                      - bio_monthly[SetMax(earlier)].total_bio),
                  F(bio_monthly[SetMax(earlier)].total_bio))

AbnormalGrowthUpper == 2

\* -0.5
AbnormalGrowthLower == Rat(-1, 2)

\* (growth_rate > 2.0) | (growth_rate < -0.5)
IsAbnormalGrowth(growth_rate) ==
    \/ FGreater(growth_rate, F(AbnormalGrowthUpper))
    \/ FLess(growth_rate, AbnormalGrowthLower)

\* the local frames of trend_analysis
TrendFrames(bio) ==
    LET monthly == BioMonthly(bio)
        rated   == [k \in DOMAIN monthly |->
                       monthly[k] @@ [growth_rate |-> GrowthRate(monthly, k)]]
    IN  [bio_monthly     |-> rated,
         abnormal_growth |-> SelectSeq(rated, LAMBDA r :
                                          IsAbnormalGrowth(r.growth_rate))]

TrendFinding ==
    Finding("Abnormal biometric update growth patterns detected", <<>>)

TrendFindings(frames) ==
    IF frames.abnormal_growth # <<>> THEN <<TrendFinding>> ELSE <<>>

\* the handler putting its finding at the head of the list
trend_analysis_prepending ==
    /\ pc = "trend_analysis"
    /\ biometric_data' = ToDatetime(biometric_data)
    /\ demographic_data' = ToDatetime(demographic_data)
    /\ enrollment_data' = ToDatetime(enrollment_data)
    /\ locals' = TrendFrames(biometric_data')
    /\ problems_found' = TrendFindings(locals') \o problems_found
    /\ console' = Append(console, "STEP 2: TREND ANALYSIS")
    /\ pc' = "anomaly_detection"
    /\ UNCHANGED <<lib, state_performance, results>>

\* the handler converts the dates of the three frames in place
trend_analysis ==
    /\ pc = "trend_analysis"
    /\ biometric_data' = ToDatetime(biometric_data)
    /\ demographic_data' = ToDatetime(demographic_data)
    /\ enrollment_data' = ToDatetime(enrollment_data)
    /\ locals' = TrendFrames(biometric_data')
    /\ problems_found' = problems_found \o TrendFindings(locals')
    /\ console' = Append(console, "STEP 2: TREND ANALYSIS")
    /\ pc' = "anomaly_detection"
    /\ UNCHANGED <<lib, state_performance, results>>

----------------------------------------------------------------------------
(* AadhaarDataAnalyzer.spatial_comparison *)

MinUnderperforming == 3

\* int(len(state_performance) * 0.1)
Bottom10Percent(n) == n \div 10

\* three rows whatever the number of regions
UnderperformingCountFixed(n) == MinUnderperforming

\* max(3, bottom_10_percent)
UnderperformingCount(n) ==
    IF Bottom10Percent(n) > MinUnderperforming THEN Bottom10Percent(n)
    ELSE MinUnderperforming

\* state_performance.nsmallest(n, 'total_bio'): ties in the order of the frame
NSmallest(frame, n, c) == FrameHead(SortValues(frame, c, TRUE), n)

Underperforming(bio) ==
    NSmallest(bio_totals(bio), UnderperformingCount(Len(bio_totals(bio))),
              "total_bio")

UnderperformingFinding(underperforming) ==
    Finding("Underperforming states:", Index(underperforming))

SpatialFindings(underperforming) ==
    IF underperforming # <<>> THEN <<UnderperformingFinding(underperforming)>>
    ELSE <<>>

\* the handler assigning the list instead of appending to it
spatial_comparison_assigning ==
    /\ pc = "spatial_comparison"
    /\ locals' = [state_performance |-> bio_totals(biometric_data),
                  underperforming   |-> Underperforming(biometric_data)]
    /\ problems_found' = SpatialFindings(locals'.underperforming)
    /\ console' = console \o <<"STEP 5: SPATIAL COMPARISON ANALYSIS",
                               "EXTREME DISTRICTS">>
    /\ pc' = "demographic_segmentation"
    /\ UNCHANGED <<biometric_data, demographic_data, enrollment_data, lib,
                   state_performance, results>>

\* the district analysis of the handler only prints a count
spatial_comparison ==
    /\ pc = "spatial_comparison"
    /\ locals' = [state_performance |-> bio_totals(biometric_data),
                  underperforming   |-> Underperforming(biometric_data)]
    /\ problems_found' = problems_found
                           \o SpatialFindings(locals'.underperforming)
    /\ console' = console \o <<"STEP 5: SPATIAL COMPARISON ANALYSIS",
                               "EXTREME DISTRICTS">>
    /\ pc' = "demographic_segmentation"
    /\ UNCHANGED <<biometric_data, demographic_data, enrollment_data, lib,
                   state_performance, results>>

----------------------------------------------------------------------------
(* AadhaarDataAnalyzer.demographic_segmentation *)

Percent == 100

\* (youth / total) * 100
YouthPercentage(youth, total) == FMul(FDiv(youth, total), F(Percent))

UnusualYouthUpper == 80

UnusualYouthLower == 20

\* (youth_percentage > 80) | (youth_percentage < 20)
IsUnusualYouth(youth_percentage) ==
    \/ FGreater(youth_percentage, F(UnusualYouthUpper))
    \/ FLess(youth_percentage, F(UnusualYouthLower))

\* bio_age_analysis with the columns total, youth_percentage, adult_percentage
BioAgeAnalysis(bio) ==
    LET totals == bio_totals(bio)
    IN  [i \in DOMAIN totals |->
            [state |-> totals[i].state,
             total |-> totals[i].total_bio,
             youth_percentage |-> YouthPercentage(totals[i].bio_age_5_17,
                                                  totals[i].total_bio),
             adult_percentage |-> YouthPercentage(totals[i].bio_age_17_,
                                                  totals[i].total_bio)]]

\* demo_age_analysis with the columns total and youth_percentage
DemoAgeAnalysis(demo) ==
    LET totals == demo_totals(demo)
    IN  [i \in DOMAIN totals |->
            [state |-> totals[i].state,
             total |-> totals[i].total_demo,
             youth_percentage |-> YouthPercentage(totals[i].demo_age_5_17,
                                                  totals[i].total_demo)]]

\* abs(a - b)
FAbs(a) == IF FLess(a, Zero) THEN FNeg(a) ELSE a

AgePatternDiffLimit == 20

\* pd.merge(bio[['youth_percentage']], demo[['youth_percentage']]) on the
\* index (an inner join), with the column age_pattern_diff
AgeComparison(bio_age, demo_age) ==
    LET keys == SortSet(States(bio_age) \cap States(demo_age))
    IN  [i \in 1..Len(keys) |->
            LET b == Group(bio_age, keys[i])[1].youth_percentage
                d == Group(demo_age, keys[i])[1].youth_percentage
            IN  [state |-> keys[i],
                 youth_percentage_bio  |-> b,
                 youth_percentage_demo |-> d,
                 age_pattern_diff      |-> FAbs(FSub(b, d))]]

\* the local frames of demographic_segmentation
SegmentationFrames(bio, demo) ==
    LET bio_age == BioAgeAnalysis(bio)
        cmp     == AgeComparison(bio_age, DemoAgeAnalysis(demo))
    IN  [bio_age_analysis  |-> bio_age,
         unusual_youth     |-> SelectSeq(bio_age, LAMBDA r :
                                  IsUnusualYouth(r.youth_percentage)),
         age_comparison    |-> cmp,
         large_differences |-> SelectSeq(cmp, LAMBDA r :
                                  FGreater(r.age_pattern_diff,
                                           F(AgePatternDiffLimit)))]

UnusualYouthFinding ==
    Finding("Unusual age distribution patterns in biometric updates", <<>>)

LargeDifferencesFinding ==
    Finding("Large age pattern differences between biometric and demographic updates",
            <<>>)

SegmentationFindings(frames) ==
    (IF frames.unusual_youth # <<>> THEN <<UnusualYouthFinding>> ELSE <<>>)
    \o (IF frames.large_differences # <<>> THEN <<LargeDifferencesFinding>>
        ELSE <<>>)

demographic_segmentation ==
    /\ pc = "demographic_segmentation"
    /\ locals' = SegmentationFrames(biometric_data, demographic_data)
    /\ problems_found' = problems_found \o SegmentationFindings(locals')
    /\ console' = Append(console, "STEP 6: DEMOGRAPHIC SEGMENTATION ANALYSIS")
    /\ pc' = "correlation_analysis"
    /\ UNCHANGED <<biometric_data, demographic_data, enrollment_data, lib,
                   state_performance, results>>

----------------------------------------------------------------------------
(* AadhaarDataAnalyzer: correlation_analysis, generate_insights_report and
   the return of run_complete_analysis *)

\* correlation_data: the sums by state of the three datasets outer-merged on
\* the index and zero-filled (without the total columns)
CorrelationData(bio, demo, enroll) ==
    LET merged == MergedTotals(bio, demo, enroll)
    IN  [i \in DOMAIN merged |->
            [c \in DOMAIN merged[i]
                     \ {"total_bio", "total_demo", "total_enroll"} |->
                merged[i][c]]]

\* the handler prints the strong correlations; it adds no finding
correlation_analysis ==
    /\ pc = "correlation_analysis"
    /\ locals' = [correlation_data |->
                     CorrelationData(biometric_data, demographic_data,
                                     enrollment_data)]
    /\ console' = Append(console, "STEP 7: CORRELATION ANALYSIS")
    /\ pc' = "generate_insights_report"
    /\ UNCHANGED <<biometric_data, demographic_data, enrollment_data, lib,
                   state_performance, results, problems_found>>

\* the report prints the number of findings and each of them, then
\* run_complete_analysis returns problems_found
generate_insights_report ==
    /\ pc = "generate_insights_report"
    /\ locals' = [total_problems |-> Len(problems_found),
                  returned       |-> problems_found]
    /\ console' = console \o <<"COMPREHENSIVE INSIGHTS REPORT",
                               "ANALYSIS COMPLETE!">>
    /\ pc' = "analysis_complete"
    /\ UNCHANGED <<biometric_data, demographic_data, enrollment_data, lib,
                   state_performance, results, problems_found>>

----------------------------------------------------------------------------
(* ComprehensiveAadhaarAnalytics.technique_1_isolation_forest *)

\* results = {key: value}
PutReplacing(dict, key, value) == [k \in {key} |-> value]

\* results[key] = value
Put(dict, key, value) ==
    [k \in DOMAIN dict \cup {key} |-> IF k = key THEN value ELSE dict[k]]

Features ==
    <<"total_bio", "total_demo", "total_enroll", "bio_demo_ratio",
      "update_enroll_ratio">>

\* replace([np.inf, -np.inf], np.nan) alone, without the fillna(0)
ReplaceInfOnly(x) == IF IsInf(x) THEN NaN ELSE x

\* replace([np.inf, -np.inf], np.nan).fillna(0) on one cell
ReplaceInfFillNa(x) == IF x.d = 0 THEN Zero ELSE x

\* X: the feature columns of the metric table, cleaned
FeatureMatrix(frame) ==
    [i \in DOMAIN frame |->
        [c \in Range(Features) |-> ReplaceInfFillNa(frame[i][c])]]

\* contamination=0.15, in percent
ContaminationPct == 15

\* IsolationForest.fit: the threshold offset_ is the 100 * contamination
\* percentile (linear interpolation) of the scores of the training rows
\* the threshold put at the lowest score
OffsetAtMinimum(score_samples) == Quantile(score_samples, 0, 100)

Offset(score_samples) == Quantile(score_samples, ContaminationPct, 100)

\* IsolationForest.decision_function: score_samples - offset_
DecisionFunction(score_samples) ==
    [i \in DOMAIN score_samples |->
        FSub(F(score_samples[i]), Offset(score_samples))]

\* IsolationForest.fit_predict: -1 where the decision function is negative,
\* 1 elsewhere
FitPredict(score_samples) ==
    LET decision == DecisionFunction(score_samples)
    IN  [i \in DOMAIN score_samples |->
            IF FLess(decision[i], Zero) THEN -1 ELSE 1]

\* anomaly_labels == 1
IsAnomalyInlier(anomaly_label) == anomaly_label = 1

\* anomaly_labels == -1
IsAnomaly(anomaly_label) == anomaly_label = -1

\* results_df: the metric table with the label, score and flag columns
ResultsDf(frame, score_samples) ==
    LET anomaly_labels == FitPredict(score_samples)
        anomaly_scores == DecisionFunction(score_samples)
    IN  [i \in DOMAIN frame |->
            frame[i] @@ [anomaly_label |-> anomaly_labels[i],
                         anomaly_score |-> anomaly_scores[i],
                         is_anomaly    |-> IsAnomaly(anomaly_labels[i])]]

\* the orders of the flagged rows that sort_values('anomaly_score') can give
AnomalyOrders(results_df) ==
    SortOrders(SelectSeq(results_df, LAMBDA r : r.is_anomaly),
               "anomaly_score")

\* the value stored in results['isolation_forest']
IsolationForestResults(results_df, anomalies) ==
    [results   |-> results_df,
     anomalies |-> anomalies,
     features  |-> Features]

\* StandardScaler.fit_transform raises ValueError on a matrix of no rows
ScalerRaises(X) == Len(X) = 0

\* PCA(n_components=2).fit_transform raises ValueError when the matrix has
\* fewer than two rows
PCARaises(X) == Len(X) < 2

\* the handler: with no region the scaler raises before anything is stored;
\* with one region the results are stored and the PCA of the plot raises
technique_1_isolation_forest ==
    /\ pc = "technique_1"
    /\ console' = Append(console,
                         "TECHNIQUE 1: ISOLATION FOREST ANOMALY DETECTION")
    /\ locals' = [X |-> FeatureMatrix(state_performance)]
    /\ \E anomalies \in AnomalyOrders(ResultsDf(state_performance,
                                                lib.score_samples)) :
          results' = IF ScalerRaises(locals'.X) THEN results
                     ELSE Put(results, "isolation_forest",
                              IsolationForestResults(
                                  ResultsDf(state_performance,
                                            lib.score_samples),
                                  anomalies))
    /\ pc' = IF ScalerRaises(locals'.X) \/ PCARaises(locals'.X)
             THEN "crashed" ELSE "technique_2"
    /\ UNCHANGED <<biometric_data, demographic_data, enrollment_data, lib,
                   state_performance, problems_found>>

----------------------------------------------------------------------------
(* ComprehensiveAadhaarAnalytics.technique_2_arima_forecasting *)

\* the months of the rows whose date parsed
ValidMonths(bio) == {bio[i].date : i \in {j \in DOMAIN bio : bio[j].date # NaT}}

\* ts_data: total_bio summed by date and resampled by month, one observation
\* for every month from the first to the last, 0 for a month without rows
MonthlySeries(bio) ==
    LET months == ValidMonths(bio)
    IN  IF months = {} THEN <<>>
        ELSE [k \in 1..(SetMax(months) - SetMin(months) + 1) |->
                LET month == SetMin(months) + k - 1
                    rows  == SelectSeq(bio, LAMBDA r : r.date = month)
                IN  [month     |-> month,
                     total_bio |-> SumCol(rows, "bio_age_5_17")
                                     + SumCol(rows, "bio_age_17_")]]

MinObservations == 10

\* len(ts_data) < 5
InsufficientDataBelowFive(ts_data) == Len(ts_data) < 5

\* len(ts_data) < 10
InsufficientData(ts_data) == Len(ts_data) < MinObservations

\* the orders in the order of the three nested loops
Orders ==
    [k \in 1..18 |-> <<(k - 1) \div 6, ((k - 1) \div 3) % 2, (k - 1) % 3>>]

NoModel == [found |-> FALSE, order |-> <<>>, aic |-> 0]

\* the grid search with a fit replacing the best one when its AIC is lower
\* or equal
RECURSIVE GridSearchKeepingLast(_, _, _)
GridSearchKeepingLast(k, best, arima) ==
    IF k > Len(Orders) THEN best
    ELSE GridSearchKeepingLast(
             k + 1,
             IF /\ Orders[k] \in arima.converges
                /\ (~best.found \/ arima.aic[Orders[k]] <= best.aic)
             THEN [found |-> TRUE, order |-> Orders[k],
                   aic |-> arima.aic[Orders[k]]]
             ELSE best,
             arima)

\* the grid search from the k-th order on: a fit that raises is skipped, a
\* fit replaces the best one when its AIC is strictly lower
RECURSIVE GridSearch(_, _, _)
GridSearch(k, best, arima) ==
    IF k > Len(Orders) THEN best
    ELSE GridSearch(k + 1,
                    IF /\ Orders[k] \in arima.converges
                       /\ (~best.found \/ arima.aic[Orders[k]] < best.aic)
                    THEN [found |-> TRUE, order |-> Orders[k],
                          aic |-> arima.aic[Orders[k]]]
                    ELSE best,
                    arima)

ForecastSteps == 6

\* best_model.forecast(steps) and get_forecast(steps).conf_int(): the first
\* steps points of the path the fitted model predicts
Forecast(path, steps) == SubSeq(path, 1, steps)

\* pd.date_range(last_date, periods=steps, freq='M')
ForecastDatesFromLast(ts_data, steps) ==
    [i \in 1..steps |-> ts_data[Len(ts_data)].month + i - 1]

\* pd.date_range(last_date + 1 month, periods=steps, freq='M')
ForecastDates(ts_data, steps) ==
    [i \in 1..steps |-> ts_data[Len(ts_data)].month + i]

\* the value stored in results['arima']
ArimaResults(ts_data, best, arima) ==
    LET path == Forecast(arima.path[best.order], ForecastSteps)
    IN  [forecast       |-> [i \in DOMAIN path |-> path[i].mean],
         forecast_ci    |-> [i \in DOMAIN path |->
                                [lower |-> path[i].lower,
                                 upper |-> path[i].upper]],
         forecast_dates |-> ForecastDates(ts_data, ForecastSteps),
         historical     |-> ts_data,
         order          |-> best.order,
         aic            |-> best.aic]

\* how the handler ends on the series ts_data
ArimaOutcome(ts_data, arima) ==
    IF InsufficientData(ts_data) THEN "insufficient"
    ELSE IF arima.adfuller_raises THEN "adfuller_raised"
    ELSE IF GridSearch(1, NoModel, arima).found THEN "forecast"
    ELSE "no_model"

\* what the handler prints
ArimaNotices(outcome) ==
    <<"TECHNIQUE 2: ARIMA TIME SERIES FORECASTING">>
    \o (CASE outcome = "insufficient" ->
                <<"Insufficient data for ARIMA modeling">>
          [] outcome = "adfuller_raised" -> <<"Time series prepared">>
          [] outcome = "forecast" ->
                <<"Time series prepared", "Best ARIMA found",
                  "Generated 6-month forecast">>
          [] outcome = "no_model" ->
                <<"Time series prepared",
                  "Could not fit suitable ARIMA model">>)

\* the handler: adfuller is called outside the try block, so its exception
\* ends the run; the exceptions of the fits are swallowed by the search
technique_2_arima_forecasting ==
    /\ pc = "technique_2"
    /\ locals' = [ts_data |-> MonthlySeries(biometric_data),
                  outcome |-> ArimaOutcome(MonthlySeries(biometric_data),
                                           lib.arima)]
    /\ console' = console \o ArimaNotices(locals'.outcome)
    /\ results' = IF locals'.outcome = "forecast"
                  THEN Put(results, "arima",
                           ArimaResults(locals'.ts_data,
                                        GridSearch(1, NoModel, lib.arima),
                                        lib.arima))
                  ELSE results
    /\ pc' = IF locals'.outcome = "adfuller_raised"
             THEN "crashed" ELSE "technique_3"
    /\ UNCHANGED <<biometric_data, demographic_data, enrollment_data, lib,
                   state_performance, problems_found>>

----------------------------------------------------------------------------
(* AdvancedAadhaarAnalytics.arima_forecasting *)

\* how the handler ends on the series ts_data
AdvancedArimaOutcome(ts_data, arima) ==
    IF ~arima.statsmodels_available THEN "unavailable"
    ELSE IF InsufficientData(ts_data) THEN "insufficient"
    ELSE IF arima.adfuller_raises THEN "adfuller_raised"
    ELSE IF GridSearch(1, NoModel, arima).found THEN "forecast"
    ELSE "no_model"

\* what the handler prints: when no order fits, nothing after the result of
\* the stationarity test
AdvancedArimaNotices(outcome) ==
    <<"TIME SERIES: ARIMA FORECASTING">>
    \o (CASE outcome = "unavailable" -> <<"ARIMA requires statsmodels">>
          [] outcome = "insufficient" -> <<"Insufficient data for ARIMA">>
          [] outcome = "adfuller_raised" -> <<"Time series">>
          [] outcome = "forecast" ->
                <<"Time series", "ADF p-value", "Best ARIMA",
                  "Forecast generated for 6 months">>
          [] outcome = "no_model" -> <<"Time series", "ADF p-value">>)

\* the value stored in results['arima']: that of ArimaResults without 'aic'
AdvancedArimaResults(ts_data, best, arima) ==
    [c \in DOMAIN ArimaResults(ts_data, best, arima) \ {"aic"} |->
        ArimaResults(ts_data, best, arima)[c]]

\* the handler, called on the loaded frames; it returns to its caller unless
\* adfuller, called outside the try block, raises
arima_forecasting ==
    /\ pc = "arima_forecasting"
    /\ locals' = [ts_data |-> MonthlySeries(biometric_data),
                  outcome |-> AdvancedArimaOutcome(
                                  MonthlySeries(biometric_data), lib.arima)]
    /\ console' = console \o AdvancedArimaNotices(locals'.outcome)
    /\ results' = IF locals'.outcome = "forecast"
                  THEN Put(results, "arima",
                           AdvancedArimaResults(
                               locals'.ts_data,
                               GridSearch(1, NoModel, lib.arima), lib.arima))
                  ELSE results
    /\ pc' = IF locals'.outcome = "adfuller_raised"
             THEN "crashed" ELSE "returned"
    /\ UNCHANGED <<biometric_data, demographic_data, enrollment_data, lib,
                   state_performance, problems_found>>

----------------------------------------------------------------------------
(* ComprehensiveAadhaarAnalytics.technique_3_kmeans_clustering *)

Min(a, b) == IF a < b THEN a ELSE b

KRangeStop == 11

\* range(2, min(11, len(X) // 2)) as a list
KRange(n) ==
    [i \in 1..(Min(KRangeStop, n \div 2) - 2) |-> i + 1]

\* the candidates the loop fits before silhouette_score raises, the one at
\* which it raises included
Evaluated(K_range, kmeans) ==
    LET raising == {i \in DOMAIN K_range :
                        K_range[i] \in kmeans.silhouette_raises}
    IN  IF raising = {} THEN K_range
        ELSE SubSeq(K_range, 1, SetMin(raising))

\* the last position of the largest value
ArgMaxLast(values) ==
    SetMax({i \in DOMAIN values : \A j \in DOMAIN values :
                                      values[j] <= values[i]})

\* np.argmax, 0-based in the code and 1-based here: the first position of the
\* largest value
ArgMax(values) ==
    SetMin({i \in DOMAIN values : \A j \in DOMAIN values :
                                      values[j] <= values[i]})

RECURSIVE FSumCol(_, _)
FSumCol(rows, c) ==
    IF rows = <<>> THEN Zero ELSE FAdd(Head(rows)[c], FSumCol(Tail(rows), c))

\* Series.mean(): the mean of the cells that are not NaN, NaN when there is
\* none
FMeanCol(rows, c) ==
    FDiv(FSumCol(SelectSeq(rows, LAMBDA r : ~IsNaN(r[c])), c),
         F(Len(SelectSeq(rows, LAMBDA r : ~IsNaN(r[c])))))

\* cluster_info of one cluster
ClusterInfo(clustered_data, cluster_id) ==
    LET cluster_states ==
            SelectSeq(clustered_data, LAMBDA r : r.cluster = cluster_id)
    IN  [cluster_id |-> cluster_id,
         size       |-> Len(cluster_states),
         states     |-> Index(cluster_states),
         avg_bio    |-> FMeanCol(cluster_states, "total_bio"),
         avg_demo   |-> FMeanCol(cluster_states, "total_demo"),
         avg_enroll |-> FMeanCol(cluster_states, "total_enroll"),
         avg_bio_demo_ratio |-> FMeanCol(cluster_states, "bio_demo_ratio"),
         avg_update_enroll_ratio |->
             FMeanCol(cluster_states, "update_enroll_ratio")]

\* the value stored in results['kmeans']
KMeansResults(frame, K_range, kmeans) ==
    LET silhouette_scores ==
            [i \in DOMAIN K_range |-> kmeans.silhouette[K_range[i]]]
        optimal_k == K_range[ArgMax(silhouette_scores)]
        clustered_data ==
            [i \in DOMAIN frame |->
                frame[i] @@ [cluster |-> kmeans.labels[optimal_k][i]]]
    IN  [data              |-> clustered_data,
         features          |-> Features,
         optimal_k         |-> optimal_k,
         silhouette_score  |-> silhouette_scores[ArgMax(silhouette_scores)],
         cluster_summary   |-> [c \in 1..optimal_k |->
                                    ClusterInfo(clustered_data, c - 1)],
         inertias          |-> [i \in DOMAIN K_range |->
                                    kmeans.inertia[K_range[i]]],
         silhouette_scores |-> silhouette_scores,
         K_range           |-> K_range]

KMeansRandomState == 42

Technique3Notice == "TECHNIQUE 3: K-MEANS CLUSTERING FOR STATE GROUPING"

\* the number of the invocation of the handler that is about to run
Invocation(notices) ==
    Cardinality({i \in DOMAIN notices : notices[i] = Technique3Notice}) + 1

\* KMeans without random_state: the fits follow the global generator, which
\* has moved on at every invocation
KMeansEstimatorUnseeded(library, invocation) ==
    IF "kmeans_unseeded" \in DOMAIN library
    THEN library.kmeans_unseeded[invocation]
    ELSE library.kmeans

\* KMeans(n_clusters=k, random_state=42, n_init=10), in the loop and in the
\* final fit: the fits on a matrix are those of the seed at every invocation
KMeansEstimator(library, invocation) == library.kmeans

\* how the handler ends: the scaler raises on no rows, silhouette_score
\* raises where the fitted labels do not form 2..n-1 clusters, np.argmax
\* raises ValueError on the empty list an empty K_range leaves
KMeansOutcome(X, kmeans) ==
    IF ScalerRaises(X) THEN "scaler_raised"
    ELSE IF Evaluated(KRange(Len(X)), kmeans) # KRange(Len(X))
         THEN "silhouette_raised"
    ELSE IF KRange(Len(X)) = <<>> THEN "argmax_raised"
    ELSE "clustered"

\* the n_clusters of every KMeans the handler fits, in the order of the
\* fits: one for each candidate the loop reaches, then the final model
Fits(X, kmeans) ==
    IF ScalerRaises(X) THEN <<>>
    ELSE Evaluated(KRange(Len(X)), kmeans)
             \o (IF KMeansOutcome(X, kmeans) = "clustered"
                 THEN <<KRange(Len(X))[ArgMax(
                           [i \in DOMAIN KRange(Len(X)) |->
                               kmeans.silhouette[KRange(Len(X))[i]]])]>>
                 ELSE <<>>)

technique_3_kmeans_clustering ==
    /\ pc = "technique_3"
    /\ console' = Append(console, Technique3Notice)
    /\ locals' = [X         |-> FeatureMatrix(state_performance),
                  K_range   |-> IF ScalerRaises(FeatureMatrix(state_performance))
                                THEN <<>>
                                ELSE KRange(Len(state_performance)),
                  evaluated |-> IF ScalerRaises(FeatureMatrix(state_performance))
                                THEN <<>>
                                ELSE Evaluated(
                                         KRange(Len(state_performance)),
                                         KMeansEstimator(lib,
                                                         Invocation(console))),
                  fits      |-> Fits(FeatureMatrix(state_performance),
                                     KMeansEstimator(lib,
                                                     Invocation(console))),
                  outcome   |-> KMeansOutcome(
                                    FeatureMatrix(state_performance),
                                    KMeansEstimator(lib, Invocation(console)))]
    /\ results' = IF locals'.outcome = "clustered"
                  THEN Put(results, "kmeans",
                           KMeansResults(state_performance, locals'.K_range,
                                         KMeansEstimator(lib,
                                                         Invocation(console))))
                  ELSE results
    /\ pc' = IF locals'.outcome = "clustered" THEN "summary" ELSE "crashed"
    /\ UNCHANGED <<biometric_data, demographic_data, enrollment_data, lib,
                   state_performance, problems_found>>

(* run_all_techniques after the third technique, _generate_summary_report *)

\* the sections of the report, one for each technique with stored results
ReportSections(dict) ==
    SelectSeq(<<"isolation_forest", "arima", "kmeans">>,
              LAMBDA key : key \in DOMAIN dict)

generate_summary_report ==
    /\ pc = "summary"
    /\ locals' = [report |-> ReportSections(results)]
    /\ console' = console
                    \o <<"FIRST 3 ADVANCED TECHNIQUES COMPLETED",
                         "Comprehensive report saved">>
    /\ pc' = "done"
    /\ UNCHANGED <<biometric_data, demographic_data, enrollment_data, lib,
                   state_performance, results, problems_found>>

----------------------------------------------------------------------------
(* AadhaarAPIClient.fetch_data and fetch_state_wise_data *)

\* self.base_urls
base_urls ==
    [demographic |-> "/resource/19eac040-0b94-49fa-b239-4f2fd8677d53",
     biometric   |-> "/resource/65454dab-1517-40a3-ac1d-47d4dfe6891c",
     enrollment  |-> "/resource/65454dab-1517-40a3-ac1d-47d4dfe6891c"]

\* the default limit of fetch_data and the limit fetch_state_wise_data passes
DefaultLimit == 100

StateWiseLimit == 1000

OkStatus == 200

\* the value None
None == [kind |-> "None"]

\* an argument left at None, or the empty string: both are falsy
NoValue == ""

\* the filters of the query: a filter is added only for a truthy argument
Filters(state, district) ==
    [name \in {n \in {"state", "district"} :
                  (n = "state" /\ state # NoValue)
                  \/ (n = "district" /\ district # NoValue)} |->
        IF name = "state" THEN state ELSE district]

\* the request requests.get sends
Request(data_type, state, district, format, limit, offset) ==
    [base_url |-> "https://api.data.gov.in",
     endpoint |-> base_urls[data_type],
     format   |-> format,
     limit    |-> limit,
     offset   |-> offset,
     filters  |-> Filters(state, district)]

\* what comes back: no response at all (requests.get raises a
\* RequestException), or a status and a body: records, an empty document or
\* text, or text that is not JSON
Responses ==
    {[error |-> TRUE, status |-> 0, body |-> "none"],
     [error |-> FALSE, status |-> OkStatus, body |-> "records"],
     [error |-> FALSE, status |-> OkStatus, body |-> "empty"],
     [error |-> FALSE, status |-> OkStatus, body |-> "malformed"],
     [error |-> FALSE, status |-> 500, body |-> "malformed"]}

\* the exception raised inside the try block: by requests.get, or by
\* response.json() on a body that is not JSON
RaisedInTry(format, response) ==
    IF response.error THEN "RequestException"
    ELSE IF response.status = OkStatus /\ format = "json"
            /\ response.body = "malformed"
         THEN "JSONDecodeError"
    ELSE "none"

\* the classes an exception is an instance of
Bases(exception) ==
    CASE exception = "RequestException" -> {"RequestException", "Exception"}
      [] exception = "JSONDecodeError" ->
             {"JSONDecodeError", "ValueError", "Exception"}
      [] exception = "none" -> {}

\* the handler without the clause for Exception
ExceptClausesNetworkOnly == {"RequestException"}

\* the except clauses of fetch_data
ExceptClauses == {"RequestException", "Exception"}

\* the exception that leaves fetch_data once the request is sent
Escaping(format, response) ==
    IF Bases(RaisedInTry(format, response)) \cap ExceptClauses = {}
    THEN RaisedInTry(format, response) ELSE "none"

\* the value fetch_data returns once the request is sent
Returned(format, response) ==
    IF RaisedInTry(format, response) # "none" THEN None
    ELSE IF response.status # OkStatus THEN None
    ELSE IF format = "json" THEN [kind |-> "json", value |-> response.body]
    ELSE [kind |-> "text", value |-> response.body]

\* bool(data): None, the empty document and the empty text are falsy
Truthy(data) == data # None /\ data.value # "empty"

\* the check of data_type before anything else: a request is sent only for
\* a key of base_urls
Sends(data_type) == data_type \in DOMAIN base_urls

\* fetch_data(data_type, state, district, format): how the call ends given
\* the answer to its request, if it sends one
FetchData(data_type, format, response) ==
    IF ~Sends(data_type) THEN [raised |-> "ValueError", value |-> None]
    ELSE [raised |-> Escaping(format, response),
          value  |-> Returned(format, response)]

\* a direct call of fetch_data with the arguments in locals
fetch_data ==
    /\ pc = "fetch_data"
    /\ \E response \in Responses :
        /\ lib' = IF Sends(locals.data_type)
                  THEN [sent |-> Append(lib.sent,
                            [request  |-> Request(locals.data_type,
                                                  locals.state, NoValue,
                                                  locals.format,
                                                  DefaultLimit, 0),
                             response |-> response])]
                  ELSE lib
        /\ results' = FetchData(locals.data_type, locals.format, response)
    /\ console' = IF Sends(locals.data_type)
                  THEN Append(console, "Fetching data") ELSE console
    /\ pc' = IF results'.raised # "none" THEN "raised" ELSE "returned"
    /\ UNCHANGED <<biometric_data, demographic_data, enrollment_data,
                   state_performance, problems_found, locals>>

\* one turn of the loop of fetch_state_wise_data: the fetch for the next
\* state of the list, the entry appended when the data is truthy, the sleep
fetch_state_wise_data_loop ==
    /\ pc = "fetch_state_wise_data"
    /\ locals.position < Len(locals.states_list)
    /\ \E response \in Responses :
        /\ lib' = IF Sends(locals.data_type)
                  THEN [sent |-> Append(lib.sent,
                            [request  |-> Request(
                                              locals.data_type,
                                              locals.states_list[
                                                  locals.position + 1],
                                              NoValue, locals.format,
                                              StateWiseLimit, 0),
                             response |-> response])]
                  ELSE lib
        /\ results' = FetchData(locals.data_type, locals.format, response)
    /\ locals' = IF results'.raised # "none" THEN locals
                 ELSE [locals EXCEPT
                          !.position = @ + 1,
                          !.all_data =
                              IF Truthy(results'.value)
                              THEN Append(@,
                                       [state |-> locals.states_list[
                                                      locals.position + 1],
                                        data  |-> results'.value])
                              ELSE @]
    /\ console' = console
                    \o <<"Fetching data for state">>
                    \o (IF Sends(locals.data_type) THEN <<"Fetching data">>
                        ELSE <<>>)
    /\ pc' = IF results'.raised # "none" THEN "raised"
             ELSE "fetch_state_wise_data"
    /\ UNCHANGED <<biometric_data, demographic_data, enrollment_data,
                   state_performance, problems_found>>

\* the loop is over: return all_data
fetch_state_wise_data_return ==
    /\ pc = "fetch_state_wise_data"
    /\ locals.position = Len(locals.states_list)
    /\ results' = [raised |-> "none", value |-> locals.all_data]
    /\ pc' = "returned"
    /\ UNCHANGED <<biometric_data, demographic_data, enrollment_data, lib,
                   state_performance, problems_found, locals, console>>

----------------------------------------------------------------------------
(* Inputs *)

BioRow(s, m, t) ==
    [state |-> s, date |-> m, bio_age_5_17 |-> t[1], bio_age_17_ |-> t[2]]

DemoRow(s, m, t) ==
    [state |-> s, date |-> m, demo_age_5_17 |-> t[1], demo_age_17_ |-> t[2]]

EnrollRow(s, m, t) ==
    [state |-> s, date |-> m, age_0_5 |-> t[1], age_5_17 |-> t[2],
     age_18_greater |-> t[3]]

\* what the library models return when no technique is run
LibNone == [score_samples |-> <<>>]

\* the state of both objects right after construction
Constructed ==
    /\ state_performance = <<>>
    /\ results = <<>>
    /\ problems_found = <<>>
    /\ locals = <<>>
    /\ console = <<>>

\* at most MaxRows raw rows over the three datasets, regions 1..MaxRegions,
\* the counts of a row drawn from the given sets
RawData(bioCounts, demoCounts, enrollCounts) ==
    /\ biometric_data \in SeqsUpTo(
            {BioRow(s, 1, t) : s \in 1..MaxRegions, t \in bioCounts}, MaxRows)
    /\ demographic_data \in SeqsUpTo(
            {DemoRow(s, 1, t) : s \in 1..MaxRegions, t \in demoCounts},
            MaxRows - Len(biometric_data))
    /\ enrollment_data \in SeqsUpTo(
            {EnrollRow(s, 1, t) : s \in 1..MaxRegions, t \in enrollCounts},
            MaxRows - Len(biometric_data) - Len(demographic_data))

\* a row of the named dataset
DataRow(dataset, s, m, t) ==
    CASE dataset = "biometric" -> BioRow(s, m, t)
      [] dataset = "demographic" -> DemoRow(s, m, t)
      [] dataset = "enrollment" -> EnrollRow(s, m, t)

\* a region without a row in a dataset
Absent == <<>>

\* the dataset that holds one row, of counts f[s], for each region s that f
\* does not leave out, the regions ascending
RowsOf(f, dataset) ==
    LET keys == SortSet({s \in DOMAIN f : f[s] # Absent})
    IN  [i \in 1..Len(keys) |-> DataRow(dataset, keys[i], 1, f[keys[i]])]

\* regions 1..n, each with at most one row in each dataset
PerRegionData(n, bioCounts, demoCounts, enrollCounts) ==
    \E fb \in [1..n -> bioCounts \cup {Absent}],
       fd \in [1..n -> demoCounts \cup {Absent}],
       fe \in [1..n -> enrollCounts \cup {Absent}] :
        /\ biometric_data = RowsOf(fb, "biometric")
        /\ demographic_data = RowsOf(fd, "demographic")
        /\ enrollment_data = RowsOf(fe, "enrollment")

\* the datasets of exactly one row for each of the regions 1..n, n <= max
OneRowEach(data, dataset, max, counts) ==
    \E n \in 0..max : \E f \in [1..n -> counts] : data = RowsOf(f, dataset)

----------------------------------------------------------------------------
(* SpecAgg: load_data over every small input *)

InitAgg ==
    /\ RawData({<<1, 2>>, <<4, 0>>}, {<<2, 1>>}, {<<1, 1, 1>>})
    /\ lib = LibNone
    /\ Constructed
    /\ pc = "load_data"

NextAgg == load_data

SpecAgg == InitAgg /\ [][NextAgg]_vars

AllStates ==
    States(biometric_data) \cup States(demographic_data)
        \cup States(enrollment_data)

Loaded == pc # "load_data"

\* C1: after aggregation, a region that is absent from a dataset kind has
\* exactly 0 (never NaN) in every column of that kind in the metric table
C1_ZeroFill ==
    Loaded =>
        \A i \in DOMAIN state_performance :
            LET r == state_performance[i]
            IN  /\ r.state \notin States(biometric_data) =>
                    \A c \in BioAggCols \cup {"total_bio"} : r[c] = Zero
                /\ r.state \notin States(demographic_data) =>
                    \A c \in DemoAggCols \cup {"total_demo"} : r[c] = Zero
                /\ r.state \notin States(enrollment_data) =>
                    \A c \in EnrollAggCols \cup {"total_enroll"} : r[c] = Zero

\* a loaded table with a region that has biometric rows only and a region
\* that has enrollment rows only
C1_Witness ==
    /\ Loaded
    /\ \E i, j \in DOMAIN state_performance :
        /\ state_performance[i].state \in
               States(biometric_data) \ (States(demographic_data)
                                            \cup States(enrollment_data))
        /\ state_performance[i].total_bio # Zero
        /\ state_performance[i].demo_youth_mean = Zero
        /\ state_performance[j].state \in
               States(enrollment_data) \ States(biometric_data)
        /\ state_performance[j].bio_adult_std = Zero

\* C2: the metric table has exactly one row for every region that occurs in
\* any raw dataset and no row for a region that occurs in none
C2_OneRowPerRegion ==
    Loaded =>
        \A s \in (1..MaxRegions) \cup States(state_performance) :
            Cardinality({i \in DOMAIN state_performance :
                            state_performance[i].state = s})
                = IF s \in AllStates THEN 1 ELSE 0

\* a loaded table of one row for a region with two biometric rows and one
\* demographic row, while another region occurs in no dataset
C2_Witness ==
    /\ Loaded
    /\ Len(state_performance) = 1
    /\ Len(biometric_data) = 2
    /\ Len(demographic_data) = 1
    /\ \E s \in 1..MaxRegions : s \notin AllStates

----------------------------------------------------------------------------
(* SpecRatio: ratio_efficiency_analysis over per-region totals *)

\* total_bio in {0, 1, 2, 5, 50}, total_demo in {0, 4}, total_enroll in {0, 1}
InitRatio ==
    /\ PerRegionData(MaxRatioRegions,
                     {<<1, 0>>, <<1, 1>>, <<2, 3>>, <<20, 30>>},
                     {<<1, 3>>}, {<<0, 1, 0>>})
    /\ lib = LibNone
    /\ Constructed
    /\ pc = "ratio_efficiency_analysis"

NextRatio == ratio_efficiency_analysis

SpecRatio == InitRatio /\ [][NextRatio]_vars

RatioDone == pc = "spatial_comparison"

\* C3: every region's update-to-enrollment ratio is the finite value
\* (total_bio + total_demo) / (total_enroll + 1); with total_enroll = 0,
\* total_bio = 50 and total_demo = 0 it is 50 and the region is flagged by the
\* > 2.0 rule
C3_RatioSafety ==
    RatioDone =>
        \A i \in DOMAIN locals.ratio_analysis :
            LET r == locals.ratio_analysis[i]
                u == r.update_to_enroll_ratio
            IN  /\ r.total_bio.d = 1 /\ r.total_demo.d = 1
                /\ r.total_enroll.d = 1
                /\ u.d > 0
                /\ u.n * (r.total_enroll.n + 1)
                       = (r.total_bio.n + r.total_demo.n) * u.d
                /\ (r.total_enroll = Zero /\ r.total_bio = F(50)
                        /\ r.total_demo = Zero) =>
                    /\ u = F(50)
                    /\ r.state \in States(locals.high_update_ratio)
                    /\ HighUpdateFinding \in Range(problems_found)

\* the ratio step has run on a region with total_bio = 50 and no demographic
\* or enrollment row: its ratio is 50 and it is flagged
C3_Witness ==
    /\ RatioDone
    /\ \E i \in DOMAIN locals.ratio_analysis :
        LET r == locals.ratio_analysis[i]
        IN  /\ r.total_enroll = Zero /\ r.total_bio = F(50)
            /\ r.total_demo = Zero
            /\ r.update_to_enroll_ratio = F(50)
            /\ r.state \in States(locals.high_update_ratio)

\* the two rules, on the integer totals of a row
HighUpdateRule(r) ==
    r.total_bio.n + r.total_demo.n > 2 * (r.total_enroll.n + 1)

ExtremeBioDemoRule(r) ==
    \/ r.total_bio.n > 5 * (r.total_demo.n + 1)
    \/ 5 * r.total_bio.n < r.total_demo.n + 1

\* C4: a region is flagged exactly when its update-to-enrollment ratio is
\* strictly above 2.0, or its update-type ratio total_bio / (total_demo + 1)
\* is strictly outside [0.2, 5.0]; each ratio finding is emitted exactly when
\* its rule flags at least one region
C4_RatioFlags ==
    RatioDone =>
        LET rows == Range(locals.ratio_analysis)
        IN  /\ States(locals.high_update_ratio)
                   = {r.state : r \in {x \in rows : HighUpdateRule(x)}}
            /\ States(locals.extreme_bio_demo)
                   = {r.state : r \in {x \in rows : ExtremeBioDemoRule(x)}}
            /\ HighUpdateFinding \in Range(problems_found)
                   <=> \E x \in rows : HighUpdateRule(x)
            /\ ExtremeBioDemoFinding \in Range(problems_found)
                   <=> \E x \in rows : ExtremeBioDemoRule(x)

\* the ratio step has run on three regions whose ratios are exactly 2.0, 0.2
\* and 5.0: the first is not flagged by the first rule, the others not by the
\* second
C4_Witness ==
    /\ RatioDone
    /\ \E i, j, k \in DOMAIN locals.ratio_analysis :
        LET a == locals.ratio_analysis[i]
            b == locals.ratio_analysis[j]
            c == locals.ratio_analysis[k]
        IN  /\ a.update_to_enroll_ratio = F(2)
            /\ a.state \notin States(locals.high_update_ratio)
            /\ b.bio_to_demo_ratio = Rat(1, 5)
            /\ b.state \notin States(locals.extreme_bio_demo)
            /\ c.bio_to_demo_ratio = F(5)
            /\ c.state \notin States(locals.extreme_bio_demo)
            /\ c.state \in States(locals.high_update_ratio)
    /\ Len(problems_found) = 1

----------------------------------------------------------------------------
(* SpecZScore and SpecIQR: anomaly_detection over per-region totals *)

\* total_bio in {0, 1, 2, 100} for each of up to MaxZRegions regions
InitZScore ==
    /\ OneRowEach(biometric_data, "biometric", MaxZRegions,
                  {<<0, 0>>, <<1, 0>>, <<1, 1>>, <<40, 60>>})
    /\ demographic_data = <<DemoRow(1, 1, <<1, 3>>)>>
    /\ enrollment_data = <<EnrollRow(1, 1, <<0, 1, 0>>)>>
    /\ lib = LibNone
    /\ Constructed
    /\ pc = "anomaly_detection"

\* total_demo in {1, 2, 3, 4, 5, 100} for each of up to MaxIQRRegions regions
InitIQR ==
    /\ biometric_data = <<BioRow(1, 1, <<1, 1>>)>>
    /\ OneRowEach(demographic_data, "demographic", MaxIQRRegions,
                  {<<1, 0>>, <<1, 1>>, <<1, 2>>, <<2, 2>>, <<2, 3>>,
                   <<40, 60>>})
    /\ enrollment_data = <<EnrollRow(1, 1, <<0, 1, 0>>)>>
    /\ lib = LibNone
    /\ Constructed
    /\ pc = "anomaly_detection"

NextAnomaly == anomaly_detection

SpecZScore == InitZScore /\ [][NextAnomaly]_vars

SpecIQR == InitIQR /\ [][NextAnomaly]_vars

AnomalyDone == pc = "ratio_efficiency_analysis"

FindingTexts == {problems_found[i].text : i \in DOMAIN problems_found}

\* the total of the two biometric counts of every raw row is the same
AllBioEqual ==
    \A i, j \in DOMAIN biometric_data :
        biometric_data[i].bio_age_5_17 + biometric_data[i].bio_age_17_
            = biometric_data[j].bio_age_5_17 + biometric_data[j].bio_age_17_

\* C5: when every region has the same total (zero variance) the Z-score
\* detector returns normally with every score undefined (NaN), flags no
\* region and emits no finding
C5_ZeroVariance ==
    (AnomalyDone /\ AllBioEqual) =>
        /\ \A i \in DOMAIN locals.bio_state_totals :
               IsNaN(locals.bio_state_totals[i].z_score_sq)
        /\ locals.bio_outliers = <<>>
        /\ ZScoreFindingText \notin FindingTexts

\* anomaly_detection has run on six regions of the same non-zero total
C5_Witness ==
    /\ AnomalyDone
    /\ AllBioEqual
    /\ Len(locals.bio_state_totals) = 6
    /\ locals.bio_state_totals[1].total_bio = F(100)
    /\ locals.bio_outliers = <<>>
    /\ problems_found = <<>>

\* 2 * x < 5 * Q1 - 3 * Q3, that is x < Q1 - 1.5 * (Q3 - Q1), on the
\* numerators and denominators of the quartiles
BelowLowerFence(x, Q1, Q3) ==
    2 * x * Q1.d * Q3.d < 5 * Q1.n * Q3.d - 3 * Q3.n * Q1.d

\* 2 * x > 5 * Q3 - 3 * Q1, that is x > Q3 + 1.5 * (Q3 - Q1)
AboveUpperFence(x, Q1, Q3) ==
    2 * x * Q1.d * Q3.d > 5 * Q3.n * Q1.d - 3 * Q1.n * Q3.d

\* the sorted per-region demographic totals
SortedDemoTotals ==
    SortAscending(ColumnValues(locals.demo_state_totals, "total_demo"))

\* C6: the IQR detector flags a region exactly when its total is strictly
\* below Q1 - 1.5 * (Q3 - Q1) or strictly above Q3 + 1.5 * (Q3 - Q1), Q1 and
\* Q3 being the quartiles of the per-region totals (between the order
\* statistics around positions (n - 1) / 4 and 3 * (n - 1) / 4); for the
\* totals 1, 2, 3, 4, 5, 100 the quartiles are 2.25 and 4.75 and the only
\* region flagged is the one with 100
C6_IQRFlags ==
    (AnomalyDone /\ locals.demo_state_totals # <<>>) =>
        LET Q1 == locals.Q1
            Q3 == locals.Q3
            s  == SortedDemoTotals
            n  == Len(s)
        IN  /\ Q1.d > 0 /\ Q3.d > 0
            /\ s[((n - 1) \div 4) + 1] * Q1.d <= Q1.n
            /\ Q1.n <= s[((n + 2) \div 4) + 1] * Q1.d
            /\ s[((3 * (n - 1)) \div 4) + 1] * Q3.d <= Q3.n
            /\ Q3.n <= s[((3 * n) \div 4) + 1] * Q3.d
            /\ States(locals.demo_outliers)
                   = {r.state : r \in
                        {x \in Range(locals.demo_state_totals) :
                            \/ BelowLowerFence(x.total_demo.n, Q1, Q3)
                            \/ AboveUpperFence(x.total_demo.n, Q1, Q3)}}
            /\ (IQRFindingText \in FindingTexts) <=> (locals.demo_outliers # <<>>)
            /\ s = <<1, 2, 3, 4, 5, 100>> =>
                /\ Q1 = Rat(9, 4)
                /\ Q3 = Rat(19, 4)
                /\ \A r \in Range(locals.demo_state_totals) :
                       r.state \in States(locals.demo_outliers)
                           <=> r.total_demo = F(100)

\* anomaly_detection has run on the totals 3, 100, 1, 5, 2, 4 of regions
\* 1..6 and its finding names region 2 alone
C6_Witness ==
    /\ AnomalyDone
    /\ ColumnValues(locals.demo_state_totals, "total_demo")
           = <<3, 100, 1, 5, 2, 4>>
    /\ Index(locals.demo_outliers) = <<2>>
    /\ problems_found = <<Finding(IQRFindingText, <<2>>)>>

\* C20: when the inter-quartile range of the per-region totals is zero
\* (Q1 = Q3) the IQR detector is suppressed: it flags no region and emits no
\* finding, whatever the totals that differ from the quartiles
C20_ZeroIQRSuppressed ==
    (AnomalyDone /\ locals.demo_state_totals # <<>> /\ locals.IQR = Zero) =>
        /\ locals.demo_outliers = <<>>
        /\ IQRFindingText \notin FindingTexts

\* the per-region biometric totals, in the order of the table
BioTotalValues == ColumnValues(locals.bio_state_totals, "total_bio")

\* n times the deviation of the i-th total from the mean of the n totals
Deviation(values, i) == Len(values) * values[i] - SumSeq(values)

\* the sum over the regions of the squares of those deviations: n * n * n
\* times the population variance
SumSqDeviations(values) ==
    SumSeq([j \in DOMAIN values |-> Deviation(values, j) * Deviation(values, j)])

\* C22: the Z-score detector flags a region exactly when
\* |value - mean| / std > 2, strictly, mean and std being the population mean
\* and standard deviation (divisor N) of the totals of all N regions, that
\* is when N * deviation^2 > 4 * (sum of the squared deviations); the score
\* it stores is that quotient, and no region is flagged unless
\* sqrt(N - 1) > 2
C22_ZScoreRule ==
    AnomalyDone =>
        LET values == BioTotalValues
            N      == Len(values)
        IN  /\ \A i \in DOMAIN values :
                  /\ SumSqDeviations(values) > 0 =>
                        locals.bio_state_totals[i].z_score_sq
                            = Rat(N * Deviation(values, i)
                                    * Deviation(values, i),
                                  SumSqDeviations(values))
                  /\ locals.bio_state_totals[i].state
                         \in States(locals.bio_outliers)
                     <=> /\ SumSqDeviations(values) > 0
                         /\ N * Deviation(values, i) * Deviation(values, i)
                                > ZScoreThreshold * ZScoreThreshold
                                    * SumSqDeviations(values)
            /\ locals.bio_outliers # <<>> =>
                  (N - 1) > ZScoreThreshold * ZScoreThreshold

\* anomaly_detection has run on the totals 0, 0, 100, 0, 0, 0 of six regions:
\* the third has the score sqrt(5) and is the one flagged
C22_Witness ==
    /\ AnomalyDone
    /\ BioTotalValues = <<0, 0, 100, 0, 0, 0>>
    /\ locals.bio_state_totals[3].z_score_sq = F(5)
    /\ Index(locals.bio_outliers) = <<3>>
    /\ problems_found[1] = Finding(ZScoreFindingText, <<3>>)

----------------------------------------------------------------------------
(* SpecIso: load_data, then technique_1_isolation_forest *)

\* the raw score the fitted forest gives region s: regions of the "own" kind
\* have pairwise different feature rows and scores, regions of the "common"
\* kind have identical feature rows and so one common score
ScoreOf(s, kind) == IF kind = "own" THEN (5 * s) % 17 ELSE 6

\* up to MaxIsoRegions regions, each of the own kind (total_bio = s) or of
\* the common kind (total_bio = 100), all with the same demographic and
\* enrollment rows
InitIso ==
    /\ \E n \in 0..MaxIsoRegions : \E kind \in [1..n -> {"own", "common"}] :
        /\ biometric_data =
               [s \in 1..n |-> BioRow(s, 1, IF kind[s] = "own"
                                            THEN <<s, 0>> ELSE <<50, 50>>)]
        /\ demographic_data = [s \in 1..n |-> DemoRow(s, 1, <<1, 3>>)]
        /\ enrollment_data = [s \in 1..n |-> EnrollRow(s, 1, <<0, 1, 0>>)]
        /\ lib = [score_samples |-> [s \in 1..n |-> ScoreOf(s, kind[s])]]
    /\ Constructed
    /\ pc = "load_data"

NextIso == load_data \/ technique_1_isolation_forest

SpecIso == InitIso /\ [][NextIso]_vars

IsoDone == "isolation_forest" \in DOMAIN results

\* the rows of results_df
IsoRows == results["isolation_forest"].results

\* the positions of the flagged rows
Flagged == {i \in DOMAIN IsoRows : IsoRows[i].is_anomaly}

\* round(0.15 * n)
RoundedShare(n) == (ContaminationPct * n + 50) \div 100

\* ceil(0.15 * (n - 1))
CeilShare(n) == (ContaminationPct * (n - 1) + 99) \div 100

\* no unflagged region has a strictly lower score than a flagged one
LowestAreFlagged ==
    \A i \in Flagged : \A j \in DOMAIN IsoRows \ Flagged :
        ~FLess(IsoRows[j].anomaly_score, IsoRows[i].anomaly_score)

ScoresDistinct ==
    \A i, j \in DOMAIN lib.score_samples :
        i # j => lib.score_samples[i] # lib.score_samples[j]

ScoresEqual ==
    \A i, j \in DOMAIN lib.score_samples :
        lib.score_samples[i] = lib.score_samples[j]

----------------------------------------------------------------------------
(* SpecRun: run_all_techniques *)

\* the fitted ARIMA models: which orders converge, the AIC of each order and
\* the path each predicts (eight months ahead)
ArimaModels(converges) ==
    [adfuller_raises |-> FALSE,
     converges |-> converges,
     aic  |-> [o \in Range(Orders) |-> 50 - 10 * o[1] + 20 * o[2] + o[3]],
     path |-> [o \in Range(Orders) |->
                  [i \in 1..8 |->
                      [mean  |-> 100 + 50 * o[1] + 20 * o[2] + 5 * o[3] + i,
                       lower |-> 100 + 50 * o[1] + 20 * o[2] + 5 * o[3],
                       upper |-> 100 + 50 * o[1] + 20 * o[2] + 5 * o[3]
                                     + 3 * i]]]]

\* the fitted K-means models over n regions: the silhouette score and the
\* inertia at each K, the labels at each K and the K at which
\* silhouette_score raises
KMeansModels(n, peak, raises) ==
    [silhouette_raises |-> raises,
     silhouette |-> [k \in 2..(KRangeStop - 1) |->
                        IF k <= peak THEN k ELSE peak - 1],
     inertia    |-> [k \in 2..(KRangeStop - 1) |-> 100 - k],
     labels     |-> [k \in 2..(KRangeStop - 1) |->
                        [i \in 1..n |-> (i - 1) % k]]]

\* the sets of orders whose fit converges, of the input family: none, two
\* of different AIC, two and three with the lowest AIC shared, the last
\* order tried alone, all
ConvergingSets ==
    {{}, {<<0, 1, 1>>, <<2, 0, 1>>}, {<<0, 0, 0>>, <<2, 1, 0>>},
     {<<0, 0, 1>>, <<0, 1, 0>>, <<1, 1, 0>>, <<2, 1, 1>>}, {<<2, 1, 2>>},
     Range(Orders)}

\* the spans of months of the input family
Spans == {0, 5, MaxMonths - 1, MaxMonths}

\* up to MaxRunRegions regions with one row in each dataset; the biometric
\* rows carry no valid date (span 0) or cover the months 1..span
InitRun ==
    /\ \E n \in 0..MaxRunRegions, span \in Spans :
        /\ biometric_data =
               [s \in 1..n |->
                   BioRow(s, IF span = 0 THEN NaT
                             ELSE IF s = 1 THEN span ELSE 1, <<s, 1>>)]
        /\ demographic_data = [s \in 1..n |-> DemoRow(s, 1, <<1, 3>>)]
        /\ enrollment_data = [s \in 1..n |-> EnrollRow(s, 1, <<0, 1, 0>>)]
        /\ \E raises \in BOOLEAN,
              converges \in ConvergingSets,
              peak \in {2, 4}, silhouette_raises \in {{}, {3}} :
            lib = [score_samples |-> [s \in 1..n |-> ScoreOf(s, "own")],
                   arima  |-> [ArimaModels(converges)
                                 EXCEPT !.adfuller_raises = raises],
                   kmeans |-> KMeansModels(n, peak, silhouette_raises)]
    /\ Constructed
    /\ pc = "load_data"

NextRun ==
    \/ load_data
    \/ technique_1_isolation_forest
    \/ technique_2_arima_forecasting
    \/ technique_3_kmeans_clustering
    \/ generate_summary_report

SpecRun == InitRun /\ [][NextRun]_vars

Printed(notice) == notice \in Range(console)

Technique2Ran == Printed("TECHNIQUE 2: ARIMA TIME SERIES FORECASTING")

Technique3Ran == Printed("TECHNIQUE 3: K-MEANS CLUSTERING FOR STATE GROUPING")

RegionCount == Len(state_performance)

\* C8: the candidates the clustering engine evaluates are exactly the K from
\* 2 up to and including min(10, floor(region_count / 2))
C8_KRange ==
    "kmeans" \in DOMAIN results =>
        Range(results["kmeans"].K_range) = 2..Min(10, RegionCount \div 2)

\* C9: when there are so few regions that no candidate K exists
\* (floor(region_count / 2) < 2) the clustering engine reports "insufficient
\* regions for clustering", raises no error, stores no cluster assignment and
\* the run goes on
C9_EmptyRangeSkips ==
    (Technique3Ran /\ RegionCount \div 2 < 2) =>
        /\ pc # "crashed"
        /\ Printed("insufficient regions for clustering")
        /\ "kmeans" \notin DOMAIN results

\* the months the monthly series has: from the first to the last month with
\* a validly dated biometric row
Observations ==
    LET months == {biometric_data[i].date : i \in DOMAIN biometric_data}
                      \ {NaT}
    IN  IF months = {} THEN 0
        ELSE Cardinality({m \in 0..(MaxMonths + 1) :
                            /\ \E a \in months : a <= m
                            /\ \E b \in months : m <= b})

\* C10: when the monthly series has fewer than 10 observations the forecast
\* handler prints its insufficient-data notice, stores no forecast, does not
\* raise, and the clustering handler is the next to run
C10_InsufficientData ==
    (Technique2Ran /\ Observations < 10) =>
        /\ Printed("Insufficient data for ARIMA modeling")
        /\ "arima" \notin DOMAIN results
        /\ ~Printed("Time series prepared")
        /\ pc = "technique_3" \/ Technique3Ran

\* a whole run over six regions and a series of 5 months: no forecast, the
\* clustering stored and the report written
C10_Witness ==
    /\ pc = "done"
    /\ Observations = 5
    /\ RegionCount = 6
    /\ Printed("Insufficient data for ARIMA modeling")
    /\ DOMAIN results = {"isolation_forest", "kmeans"}
    /\ locals.report = <<"isolation_forest", "kmeans">>

\* the last month with a validly dated biometric row
LastObservedMonth ==
    SetMax({biometric_data[i].date : i \in DOMAIN biometric_data} \ {NaT})

\* the grid search of the forecast handler was reached and has run
SearchRan ==
    /\ Technique2Ran
    /\ Observations >= 10
    /\ ~lib.arima.adfuller_raises

Aborted == pc = "crashed"

\* C14: no failure of one sub-analysis is fatal to the run: when a step
\* fails the other steps still execute, the results of the steps that
\* succeeded are still reported and the process does not abort
C14_NoFailureFatal == ~Aborted

\* the place of an order in the lexicographic order of (p, d, q)
Lex(order) == 6 * order[1] + 3 * order[2] + order[3]

\* C16: the grid search covers the 18 orders {0,1,2} x {0,1} x {0,1,2}; a
\* fit that fails is skipped and the search goes on, so a model is stored
\* whenever some order fits; the stored order fitted, no order that fitted
\* has a lower AIC, and of the orders that share the lowest AIC it is the
\* first in the lexicographic order of (p, d, q)
C16_GridSearch ==
    SearchRan =>
        /\ Range(Orders) = (0..2) \X (0..1) \X (0..2)
        /\ Len(Orders) = 18
        /\ lib.arima.converges # {} <=> "arima" \in DOMAIN results
        /\ "arima" \in DOMAIN results =>
              /\ results["arima"].order \in lib.arima.converges
              /\ results["arima"].aic
                     = lib.arima.aic[results["arima"].order]
              /\ \A o \in lib.arima.converges :
                    /\ results["arima"].aic <= lib.arima.aic[o]
                    /\ lib.arima.aic[o] = results["arima"].aic =>
                          Lex(results["arima"].order) <= Lex(o)

\* the search skipped the failing fit of the first order and of the two
\* orders that share the lowest AIC, 51, kept the one tried first
C16_Witness ==
    /\ SearchRan
    /\ lib.arima.converges
           = {<<0, 0, 1>>, <<0, 1, 0>>, <<1, 1, 0>>, <<2, 1, 1>>}
    /\ "arima" \in DOMAIN results
    /\ results["arima"].order = <<0, 0, 1>>
    /\ results["arima"].aic = 51
    /\ lib.arima.aic[<<2, 1, 1>>] = 51

----------------------------------------------------------------------------
(* SpecAnalysis: AadhaarDataAnalyzer.run_complete_analysis *)

\* the rows of regions 1..n of a dataset in month 1: the counts common for
\* the regions before the last, the counts special for the last
RegionRows(dataset, n, common, special) ==
    [s \in 1..n |-> DataRow(dataset, s, 1, IF s = n THEN special ELSE common)]

\* the rows a file can hold after those of the regions: none, a copy of the
\* first row, a row without a date, a row with a date that does not parse,
\* or a row of the first region in the next month
ExtraRows(dataset, rows, extra, counts) ==
    CASE extra = "none" -> <<>>
      [] extra = "duplicate" -> IF rows = <<>> THEN <<>> ELSE <<rows[1]>>
      [] extra = "null" -> <<DataRow(dataset, 1, MissingDate, counts)>>
      [] extra = "unparseable" -> <<DataRow(dataset, 1, 0, counts)>>
      [] extra = "next_month" -> <<DataRow(dataset, 1, 2, counts)>>

Extras == {"none", "duplicate", "null", "unparseable", "next_month"}

AnalysisRegionCounts == {0, 1, 3, MaxAnalysisRegions}

InitAnalysis ==
    /\ \E n \in AnalysisRegionCounts,
          cb \in {<<1, 1>>, <<9, 1>>},
          sb \in {<<1, 1>>, <<9, 1>>, <<40, 60>>, <<-1, 3>>},
          xb \in Extras,
          sd \in {<<1, 1>>, <<40, 60>>, <<-1, -1>>},
          xd \in {"none", "duplicate"},
          se \in {<<1, 1, 1>>, <<0, 0, 0>>, <<0, -1, 0>>} :
        /\ biometric_data =
              RegionRows("biometric", n, cb, sb)
                \o ExtraRows("biometric", RegionRows("biometric", n, cb, sb),
                             xb, <<5, 5>>)
        /\ demographic_data =
              RegionRows("demographic", n, <<1, 1>>, sd)
                \o ExtraRows("demographic",
                             RegionRows("demographic", n, <<1, 1>>, sd),
                             xd, <<1, 1>>)
        /\ enrollment_data = RegionRows("enrollment", n, <<1, 1, 1>>, se)
    /\ lib = LibNone
    /\ Constructed
    /\ pc = "analyzer_load_data"

NextAnalysis ==
    \/ analyzer_load_data
    \/ data_quality_check
    \/ trend_analysis
    \/ anomaly_detection
    \/ ratio_efficiency_analysis
    \/ spatial_comparison
    \/ demographic_segmentation
    \/ correlation_analysis
    \/ generate_insights_report

SpecAnalysis == InitAnalysis /\ [][NextAnalysis]_vars

AnalysisComplete == pc = "analysis_complete"

\* the texts of the findings of each component, the components in the order
\* quality, trend, anomaly, ratio, spatial, demographic
ComponentTexts ==
    <<{QualityFinding(name, <<>>).text :
          name \in {"Biometric", "Demographic", "Enrollment"}},
      {TrendFinding.text},
      {ZScoreFindingText, IQRFindingText},
      {HighUpdateFinding.text, ExtremeBioDemoFinding.text},
      {UnderperformingFinding(<<>>).text},
      {UnusualYouthFinding.text, LargeDifferencesFinding.text}>>

\* the position in the component order of the component of a finding
ComponentOf(finding) ==
    CHOOSE k \in DOMAIN ComponentTexts : finding.text \in ComponentTexts[k]

\* C12: in the findings list returned by the complete analysis no finding of
\* a later component (in the order quality, trend, anomaly, ratio, spatial,
\* demographic) precedes a finding of an earlier component
C12_ComponentOrder ==
    AnalysisComplete =>
        /\ \A i \in DOMAIN locals.returned :
               \E k \in DOMAIN ComponentTexts :
                   locals.returned[i].text \in ComponentTexts[k]
        /\ \A i, j \in DOMAIN locals.returned :
               i < j => ComponentOf(locals.returned[i])
                           <= ComponentOf(locals.returned[j])

\* a complete run that returned findings of all six components
C12_Witness ==
    /\ AnalysisComplete
    /\ \A k \in DOMAIN ComponentTexts :
           \E i \in DOMAIN locals.returned :
               locals.returned[i].text \in ComponentTexts[k]

IsPrefix(s, t) == Len(s) <= Len(t) /\ SubSeq(t, 1, Len(s)) = s

\* C13: the findings list is append-only: at every step of a run the list
\* before the step is a prefix of the list after it
C13_AppendOnly == [][IsPrefix(problems_found, problems_found')]_vars

\* the spatial comparison has appended its finding to five earlier ones
C13_Witness ==
    /\ pc = "demographic_segmentation"
    /\ Len(problems_found) = 6
    /\ problems_found[6].text = UnderperformingFinding(<<>>).text
    /\ problems_found[1].text = QualityFinding("Demographic", <<>>).text

DatasetNames == {"Biometric", "Demographic", "Enrollment"}

\* the frame of a dataset
Dataset(name) ==
    CASE name = "Biometric" -> biometric_data
      [] name = "Demographic" -> demographic_data
      [] name = "Enrollment" -> enrollment_data

\* the positions in the findings list of the quality findings of a dataset
QualityFindingsOf(findings, name) ==
    {i \in DOMAIN findings : findings[i].text = QualityFinding(name, <<>>).text}

\* data_quality_check has just returned
AfterQuality == pc = "trend_analysis"

HasNulls(name) ==
    \E i \in DOMAIN Dataset(name) : Dataset(name)[i].date = MissingDate

HasDuplicates(name) ==
    \E i, j \in DOMAIN Dataset(name) :
        i < j /\ Dataset(name)[i] = Dataset(name)[j]

HasNegatives(name) ==
    \E i \in DOMAIN Dataset(name) :
        \E k \in DOMAIN NumericCols(name) :
            Dataset(name)[i][NumericCols(name)[k]] < 0

\* C18: the quality check contributes a finding for null values, for
\* duplicate rows and for negative values: a dataset with any of the three
\* has a quality finding in the list when the check returns
C18_QualityFindings ==
    AfterQuality =>
        \A name \in DatasetNames :
            (HasNulls(name) \/ HasDuplicates(name) \/ HasNegatives(name)) =>
                QualityFindingsOf(problems_found, name) # {}

\* the rows of a frame without their date columns
Records(frame) ==
    [i \in DOMAIN frame |->
        [c \in DOMAIN frame[i] \ {"date", "month", "data_type"} |->
            frame[i][c]]]

\* C19: negative values are flagged, not rejected: the quality check appends
\* exactly one finding, naming the dataset, for each dataset with a negative
\* value in a numeric column and none for the others, it leaves the three
\* frames as they are and hands over to the next step; no step of the run
\* removes a record or changes a count
C19_NegativesFlagged ==
    [][/\ pc = "data_quality_check" =>
            /\ \A name \in DatasetNames :
                  Cardinality(QualityFindingsOf(problems_found', name))
                      = IF HasNegatives(name) THEN 1 ELSE 0
            /\ Len(problems_found')
                  = Cardinality({name \in DatasetNames : HasNegatives(name)})
            /\ UNCHANGED <<biometric_data, demographic_data, enrollment_data>>
            /\ pc' = "trend_analysis"
       /\ Records(biometric_data') = Records(biometric_data)
       /\ Records(demographic_data') = Records(demographic_data)
       /\ Records(enrollment_data') = Records(enrollment_data)]_vars

\* a complete run on data with negative demographic counts in two columns
\* and a negative enrollment count: one finding for each of the two
\* datasets, the negative values still in the frames, later findings added
C19_Witness ==
    /\ AnalysisComplete
    /\ HasNegatives("Demographic") /\ HasNegatives("Enrollment")
    /\ ~HasNegatives("Biometric")
    /\ locals.returned[1]
           = QualityFinding("Demographic", <<"demo_age_5_17", "demo_age_17_">>)
    /\ locals.returned[2] = QualityFinding("Enrollment", <<"age_5_17">>)
    /\ Len(locals.returned) > 2
    /\ Cardinality(QualityFindingsOf(locals.returned, "Demographic")) = 1

\* the number of findings each component can emit in one run: one for each
\* dataset of the quality check, one for each rule of the other components
ComponentLimits == <<3, 1, 2, 2, 1, 2>>

\* the sum of the limits
MaxFindings == SumSeq(ComponentLimits)

\* the positions in a list of the findings of the component k
FindingsOfComponent(findings, k) ==
    {i \in DOMAIN findings : findings[i].text \in ComponentTexts[k]}

\* the regions the high-update-ratio rule flags in the loaded data
HighUpdateRegions ==
    SelectSeq(RatioAnalysis(biometric_data, demographic_data,
                            enrollment_data), IsHighUpdateRatio)

\* C28: the list one run of the complete analysis on a fresh analyzer
\* returns has at most 11 entries: at most 3 of the quality check, 1 of the
\* trend step, 2 of the anomaly step, 2 of the ratio step, 1 of the spatial
\* step, 2 of the demographic step and none of any other step; no rule
\* contributes more than one entry, however many regions it flags
C28_FindingsBound ==
    AnalysisComplete =>
        /\ Len(locals.returned) <= MaxFindings
        /\ \A i \in DOMAIN locals.returned :
               \E k \in DOMAIN ComponentTexts :
                   i \in FindingsOfComponent(locals.returned, k)
        /\ \A k \in DOMAIN ComponentTexts :
               Cardinality(FindingsOfComponent(locals.returned, k))
                   <= ComponentLimits[k]
        /\ \A i, j \in DOMAIN locals.returned :
               locals.returned[i].text = locals.returned[j].text => i = j

\* a run that returned 11 findings: the one finding of the spatial step
\* names three regions and the high-update-ratio rule, triggered, has one
C28_Witness ==
    /\ AnalysisComplete
    /\ Len(locals.returned) = MaxFindings
    /\ Len(HighUpdateRegions) >= 1
    /\ Cardinality({i \in DOMAIN locals.returned :
                       locals.returned[i].text = HighUpdateFinding.text}) = 1
    /\ \E i \in DOMAIN locals.returned :
           /\ locals.returned[i].text = UnderperformingFinding(<<>>).text
           /\ Len(locals.returned[i].regions) = MinUnderperforming

----------------------------------------------------------------------------
(* SpecScenario: both pipelines on the end-to-end scenario: three regions
   over four months, one region with ten times the biometric volume of each
   other region and no enrollment *)

\* one row for each region and month, the counts of a row given by its region
ScenarioRows(dataset, counts) ==
    [k \in 1..12 |->
        DataRow(dataset, ((k - 1) \div 4) + 1, ((k - 1) % 4) + 1,
                counts[((k - 1) \div 4) + 1])]

Times(k, t) == [i \in DOMAIN t |-> k * t[i]]

\* the region r is the one with ten times the biometric counts and zero
\* enrollment; its demographic counts are those of the others, ten times
\* those, or zero.  The forest isolates the feature row of r, which differs
\* from the rows of the other two, in fewer splits, so r has the lowest score
InitScenario ==
    /\ \E r \in 1..3,
          b \in {<<1, 1>>, <<1, 0>>, <<2, 3>>},
          d \in {<<1, 1>>, <<2, 1>>},
          k \in {0, 1, 10},
          e \in {<<1, 1, 1>>, <<0, 0, 2>>},
          score \in {1, 5} :
        /\ biometric_data =
              ScenarioRows("biometric",
                           [s \in 1..3 |-> IF s = r THEN Times(10, b) ELSE b])
        /\ demographic_data =
              ScenarioRows("demographic",
                           [s \in 1..3 |-> IF s = r THEN Times(k, d) ELSE d])
        /\ enrollment_data =
              ScenarioRows("enrollment",
                           [s \in 1..3 |-> IF s = r THEN <<0, 0, 0>> ELSE e])
        /\ lib = [score_samples |-> [s \in 1..3 |-> IF s = r THEN score ELSE 6]]
    /\ Constructed
    /\ pc \in {"analyzer_load_data", "load_data"}

NextScenario ==
    \/ analyzer_load_data
    \/ data_quality_check
    \/ trend_analysis
    \/ anomaly_detection
    \/ ratio_efficiency_analysis
    \/ spatial_comparison
    \/ demographic_segmentation
    \/ correlation_analysis
    \/ generate_insights_report
    \/ load_data
    \/ technique_1_isolation_forest

SpecScenario == InitScenario /\ [][NextScenario]_vars

\* the region of the scenario without enrollment
ScenarioRegion ==
    CHOOSE s \in States(enrollment_data) :
        \A i \in DOMAIN enrollment_data :
            enrollment_data[i].state = s =>
                /\ enrollment_data[i].age_0_5 = 0
                /\ enrollment_data[i].age_5_17 = 0
                /\ enrollment_data[i].age_18_greater = 0

\* anomaly_detection has just returned
AfterAnomaly == pc = "ratio_efficiency_analysis"

\* ratio_efficiency_analysis has just returned
AfterRatio == pc = "spatial_comparison"

----------------------------------------------------------------------------
(* SpecAdvanced: AdvancedAadhaarAnalytics.arima_forecasting on loaded frames *)

\* the frames as load_and_prepare_data leaves them (dates converted), up to
\* MaxAdvancedRegions regions; the handler does not read the metric table
InitAdvanced ==
    /\ \E n \in 1..MaxAdvancedRegions, span \in Spans :
        /\ biometric_data =
               [s \in 1..n |->
                   BioRow(s, IF span = 0 THEN NaT
                             ELSE IF s = 1 THEN span ELSE 1, <<s, 1>>)]
        /\ demographic_data = [s \in 1..n |-> DemoRow(s, 1, <<1, 3>>)]
        /\ enrollment_data = [s \in 1..n |-> EnrollRow(s, 1, <<0, 1, 0>>)]
        /\ \E available \in BOOLEAN, raises \in BOOLEAN,
              converges \in ConvergingSets :
            lib = [arima |-> [ArimaModels(converges)
                                EXCEPT !.adfuller_raises = raises]
                              @@ [statsmodels_available |-> available]]
    /\ Constructed
    /\ pc = "arima_forecasting"

NextAdvanced == arima_forecasting

SpecAdvanced == InitAdvanced /\ [][NextAdvanced]_vars

\* the grid search of either forecast handler was reached and has run
AnySearchRan ==
    /\ pc \in {"returned", "technique_3", "summary", "done"}
    /\ "outcome" \in DOMAIN locals
    /\ locals.outcome \in {"forecast", "no_model"}

\* C17: when every order of the grid search fails to fit, the forecast
\* handler reports that no suitable model was found, stores no forecast,
\* does not raise, and the run goes on
C17_NoModelReported ==
    (AnySearchRan /\ lib.arima.converges = {}) =>
        /\ Printed("Could not fit suitable ARIMA model")
        /\ "arima" \notin DOMAIN results
        /\ pc # "crashed"

----------------------------------------------------------------------------
(* SpecRerun: technique_3_kmeans_clustering invoked again on the same object *)

\* the fits of an estimator that was given no seed, at each invocation: the
\* labels and the scores differ from one invocation to the next
UnseededModels(n) ==
    [i \in 1..MaxInvocations |->
        [KMeansModels(n, 2 + (i % 2), {})
            EXCEPT !.labels = [k \in 2..(KRangeStop - 1) |->
                                  [r \in 1..n |-> (r + i) % k]]]]

\* the loaded object: up to MaxRerunRegions regions, the metric table built
InitRerun ==
    /\ \E n \in 0..MaxRerunRegions, t \in {<<1, 1>>, <<2, 0>>} :
        /\ biometric_data = [s \in 1..n |-> BioRow(s, 1, <<s, t[1]>>)]
        /\ demographic_data = [s \in 1..n |-> DemoRow(s, 1, <<t[2], 3>>)]
        /\ enrollment_data = [s \in 1..n |-> EnrollRow(s, 1, <<0, 1, 0>>)]
        /\ \E peak \in {2, 3, 4}, silhouette_raises \in {{}, {3}} :
            lib = [kmeans |-> KMeansModels(n, peak, silhouette_raises),
                   kmeans_unseeded |-> UnseededModels(n)]
    /\ state_performance = CreateStatePerformanceData(
            biometric_data, demographic_data, enrollment_data)
    /\ results = <<>>
    /\ problems_found = <<>>
    /\ locals = <<>>
    /\ console = <<"Data loaded successfully">>
    /\ pc = "technique_3"

\* the caller invokes the handler once more after it returned
invoke_technique_3_again ==
    /\ pc = "summary"
    /\ Invocation(console) <= MaxInvocations
    /\ pc' = "technique_3"
    /\ UNCHANGED <<biometric_data, demographic_data, enrollment_data, lib,
                   state_performance, results, problems_found, locals,
                   console>>

NextRerun == technique_3_kmeans_clustering \/ invoke_technique_3_again

SpecRerun == InitRerun /\ [][NextRerun]_vars

\* the partition of the regions that the cluster labels of a table define
PartitionOf(clustered_data) ==
    {{clustered_data[i].state :
         i \in {j \in DOMAIN clustered_data :
                   clustered_data[j].cluster = clustered_data[k].cluster}} :
        k \in DOMAIN clustered_data}

----------------------------------------------------------------------------
(* SpecTies: load_data, then technique_1_isolation_forest, on regions of
   which two have the same feature row *)

\* n regions, 8 <= n <= MaxTieRegions; the regions a < b have the same rows
\* in the three datasets, hence the same feature row and the same score,
\* here the lowest; the other regions have rows and scores of their own
InitTies ==
    /\ \E n \in 8..MaxTieRegions : \E a, b \in 1..n :
        /\ a < b
        /\ biometric_data =
               [s \in 1..n |-> BioRow(s, 1, IF s \in {a, b}
                                            THEN <<50, 50>> ELSE <<s, 0>>)]
        /\ demographic_data = [s \in 1..n |-> DemoRow(s, 1, <<1, 3>>)]
        /\ enrollment_data = [s \in 1..n |-> EnrollRow(s, 1, <<0, 1, 0>>)]
        /\ lib = [score_samples |->
                     [s \in 1..n |-> IF s \in {a, b} THEN 0
                                     ELSE ScoreOf(s, "own")]]
    /\ Constructed
    /\ pc = "load_data"

NextTies == load_data \/ technique_1_isolation_forest

SpecTies == InitTies /\ [][NextTies]_vars

\* the ordered list of the anomalous regions
Anomalies == results["isolation_forest"].anomalies

\* C23: the list of the anomalous regions is in ascending order of the
\* anomaly score, and regions of equal score are in the order of their
\* region identifiers
C23_StableOrder ==
    IsoDone =>
        \A i, j \in DOMAIN Anomalies :
            i < j =>
                /\ ~FLess(Anomalies[j].anomaly_score,
                          Anomalies[i].anomaly_score)
                /\ Anomalies[i].anomaly_score = Anomalies[j].anomaly_score
                       => Anomalies[i].state < Anomalies[j].state

----------------------------------------------------------------------------
(* SpecClean: run_all_techniques on a metric table with infinite and
   undefined ratios *)

\* the counts of a region: "finite" gives finite ratios; with a demographic
\* total of -1 and an enrollment total of -1 both ratios divide by zero:
\* "inf_nan" gives 1 / 0 = inf and 0 / 0 = NaN, "nan_neginf" gives
\* 0 / 0 = NaN and -1 / 0 = -inf
CleanCounts(kind) ==
    CASE kind = "finite" ->
             [bio |-> <<2, 1>>, demo |-> <<1, 3>>, enroll |-> <<0, 1, 0>>]
      [] kind = "inf_nan" ->
             [bio |-> <<1, 0>>, demo |-> <<-1, 0>>, enroll |-> <<0, -1, 0>>]
      [] kind = "nan_neginf" ->
             [bio |-> <<0, 0>>, demo |-> <<-1, 0>>, enroll |-> <<0, -1, 0>>]

InitClean ==
    /\ \E n \in 0..MaxCleanRegions :
       \E kind \in [1..n -> {"finite", "inf_nan", "nan_neginf"}] :
        /\ biometric_data =
               [s \in 1..n |-> BioRow(s, 1, CleanCounts(kind[s]).bio)]
        /\ demographic_data =
               [s \in 1..n |-> DemoRow(s, 1, CleanCounts(kind[s]).demo)]
        /\ enrollment_data =
               [s \in 1..n |-> EnrollRow(s, 1, CleanCounts(kind[s]).enroll)]
        /\ lib = [score_samples |-> [s \in 1..n |-> ScoreOf(s, "own")],
                  arima  |-> ArimaModels(Range(Orders)),
                  kmeans |-> KMeansModels(n, 2, {})]
    /\ Constructed
    /\ pc = "load_data"

NextClean ==
    \/ load_data
    \/ technique_1_isolation_forest
    \/ technique_2_arima_forecasting
    \/ technique_3_kmeans_clustering
    \/ generate_summary_report

SpecClean == InitClean /\ [][NextClean]_vars

IsFinite(x) == x.d # 0

\* the matrix X the handler that has just run gave to its scaler
X == locals.X

\* C24: in the anomaly scorer and in the clustering engine every infinite or
\* undefined feature value of the metric table is zero in the matrix handed
\* to the scaler, so that the matrix holds finite values only, and every
\* finite value is in the matrix unchanged
C24_NonFiniteReplaced ==
    /\ pc = "technique_2" => "X" \in DOMAIN locals
    /\ pc = "summary" => "X" \in DOMAIN locals
    /\ "X" \in DOMAIN locals =>
           /\ DOMAIN X = DOMAIN state_performance
           /\ \A i \in DOMAIN X :
                  /\ DOMAIN X[i] = Range(Features)
                  /\ \A c \in Range(Features) :
                         /\ IsFinite(X[i][c])
                         /\ X[i][c] = IF IsFinite(state_performance[i][c])
                                      THEN state_performance[i][c]
                                      ELSE Zero

\* both handlers have run on six regions whose table holds inf, -inf, NaN
\* and finite non-zero ratios; the clustering engine's matrix has zero in
\* the place of the first three
C24_Witness ==
    /\ pc = "summary"
    /\ DOMAIN results = {"isolation_forest", "kmeans"}
    /\ Len(state_performance) = 6
    /\ state_performance[1].bio_demo_ratio = Rat(1, 0)
    /\ state_performance[1].update_enroll_ratio = NaN
    /\ state_performance[2].update_enroll_ratio = Rat(-1, 0)
    /\ state_performance[3].bio_demo_ratio = Rat(3, 5)
    /\ X[1].bio_demo_ratio = Zero
    /\ X[1].update_enroll_ratio = Zero
    /\ X[2].update_enroll_ratio = Zero
    /\ X[3].bio_demo_ratio = Rat(3, 5)
    /\ X[1].total_demo = F(-1)

----------------------------------------------------------------------------
(* SpecCluster: technique_3_kmeans_clustering on a loaded object, then
   _generate_summary_report *)

\* the highest candidate of the input family: K_range of MaxClusterRegions
MaxCandidate == MaxClusterRegions \div 2 - 1

\* the loaded object: up to MaxClusterRegions regions; the silhouette score
\* of each candidate is 1 or 2, so that the largest score is shared by
\* several candidates in some inputs; the labels of the fit at K are
\* (region + shift) mod K
InitCluster ==
    /\ \E n \in 0..MaxClusterRegions,
          f \in [2..MaxCandidate -> {1, 2}],
          shift \in {0, 1}, silhouette_raises \in {{}, {3}} :
        /\ biometric_data = [s \in 1..n |-> BioRow(s, 1, <<s, 1>>)]
        /\ demographic_data = [s \in 1..n |-> DemoRow(s, 1, <<1, 3>>)]
        /\ enrollment_data = [s \in 1..n |-> EnrollRow(s, 1, <<0, 1, 0>>)]
        /\ lib = [kmeans |->
                     [silhouette_raises |-> silhouette_raises,
                      silhouette |-> [k \in 2..(KRangeStop - 1) |->
                                         IF k <= MaxCandidate THEN f[k] ELSE 0],
                      inertia    |-> [k \in 2..(KRangeStop - 1) |-> 100 - k],
                      labels     |-> [k \in 2..(KRangeStop - 1) |->
                                         [i \in 1..n |-> (i + shift) % k]]]]
    /\ state_performance = CreateStatePerformanceData(
            biometric_data, demographic_data, enrollment_data)
    /\ results = <<>>
    /\ problems_found = <<>>
    /\ locals = <<>>
    /\ console = <<"Data loaded successfully">>
    /\ pc = "technique_3"

NextCluster == technique_3_kmeans_clustering \/ generate_summary_report

SpecCluster == InitCluster /\ [][NextCluster]_vars

KMeansStored == results["kmeans"]

\* the regions the summary lists for the cluster c
Members(c) == Range(KMeansStored.cluster_summary[c + 1].states)

Candidates == Range(KMeansStored.K_range)

\* C25: the stored K is the smallest of the candidates with the largest
\* silhouette score; the handler fits one model for each candidate and then
\* exactly one more, at the stored K; every region has one label in
\* 0..K-1, the label of that last fit; the member lists of the K clusters of
\* the summary are pairwise disjoint and their union is the set of all
\* regions
C25_OptimalPartition ==
    (pc = "summary" /\ "kmeans" \in DOMAIN results) =>
        /\ KMeansStored.optimal_k \in Candidates
        /\ \A k \in Candidates :
               /\ lib.kmeans.silhouette[k]
                      <= lib.kmeans.silhouette[KMeansStored.optimal_k]
               /\ lib.kmeans.silhouette[k]
                      = lib.kmeans.silhouette[KMeansStored.optimal_k]
                    => KMeansStored.optimal_k <= k
        /\ locals.fits = KMeansStored.K_range \o <<KMeansStored.optimal_k>>
        /\ Len(KMeansStored.data) = Len(state_performance)
        /\ \A i \in DOMAIN KMeansStored.data :
               /\ KMeansStored.data[i].cluster
                      \in 0..(KMeansStored.optimal_k - 1)
               /\ KMeansStored.data[i].cluster
                      = lib.kmeans.labels[KMeansStored.optimal_k][i]
               /\ KMeansStored.data[i].state \in
                      Members(KMeansStored.data[i].cluster)
        /\ Len(KMeansStored.cluster_summary) = KMeansStored.optimal_k
        /\ \A c, d \in 0..(KMeansStored.optimal_k - 1) :
               c # d => Members(c) \cap Members(d) = {}
        /\ \A c \in 0..(KMeansStored.optimal_k - 1) :
               Len(KMeansStored.cluster_summary[c + 1].states)
                   = Cardinality(Members(c))
        /\ UNION {Members(c) : c \in 0..(KMeansStored.optimal_k - 1)}
               = States(state_performance)

\* ten regions, candidates 2, 3 and 4, of which 3 and 4 share the largest
\* score: K = 3 is stored after four fits and the three clusters hold
\* 3, 4 and 3 regions
C25_Witness ==
    /\ pc = "summary"
    /\ "kmeans" \in DOMAIN results
    /\ Len(state_performance) = 10
    /\ KMeansStored.K_range = <<2, 3, 4>>
    /\ KMeansStored.silhouette_scores = <<1, 2, 2>>
    /\ KMeansStored.optimal_k = 3
    /\ locals.fits = <<2, 3, 4, 3>>
    /\ Members(0) = {3, 6, 9}
    /\ Members(1) = {1, 4, 7, 10}
    /\ Members(2) = {2, 5, 8}

----------------------------------------------------------------------------
(* SpecOrder: load_data, then the three handlers invoked in any order *)

InitOrder ==
    /\ \E n \in 0..MaxOrderRegions, span \in {5, MaxMonths},
          raises \in BOOLEAN :
        /\ biometric_data =
               [s \in 1..n |-> BioRow(s, IF s = 1 THEN span ELSE 1, <<s, 1>>)]
        /\ demographic_data = [s \in 1..n |-> DemoRow(s, 1, <<1, 3>>)]
        /\ enrollment_data = [s \in 1..n |-> EnrollRow(s, 1, <<0, 1, 0>>)]
        /\ lib = [score_samples |-> [s \in 1..n |-> ScoreOf(s, "own")],
                  arima  |-> [ArimaModels(Range(Orders))
                                EXCEPT !.adfuller_raises = raises],
                  kmeans |-> KMeansModels(n, 2, {})]
    /\ Constructed
    /\ pc = "load_data"

\* the entry of the results map that each handler writes
EntryOf ==
    [technique_1 |-> "isolation_forest", technique_2 |-> "arima",
     technique_3 |-> "kmeans"]

Handlers == DOMAIN EntryOf

\* the number of invocations of handlers so far
Calls(notices) ==
    Cardinality({i \in DOMAIN notices :
                    notices[i] \in {"TECHNIQUE 1: ISOLATION FOREST ANOMALY DETECTION",
                                    "TECHNIQUE 2: ARIMA TIME SERIES FORECASTING",
                                    Technique3Notice}})

\* the caller, where run_all_techniques would invoke one handler or the
\* report, invokes another one
invoke_in_other_order ==
    /\ pc \in Handlers \cup {"summary"}
    /\ \E next \in (Handlers \cup {"summary"}) \ {pc} :
          /\ next \in Handlers => Calls(console) < MaxCalls
          /\ pc' = next
    /\ UNCHANGED <<biometric_data, demographic_data, enrollment_data, lib,
                   state_performance, results, problems_found, locals,
                   console>>

NextOrder ==
    \/ load_data
    \/ invoke_in_other_order
    \/ technique_1_isolation_forest
    \/ technique_2_arima_forecasting
    \/ technique_3_kmeans_clustering
    \/ generate_summary_report

SpecOrder == InitOrder /\ [][NextOrder]_vars

\* what each entry holds when its handler ran first on the loaded data
EntryAlone(key) ==
    CASE key = "isolation_forest" ->
             IsolationForestResults(
                 ResultsDf(CreateStatePerformanceData(
                               biometric_data, demographic_data,
                               enrollment_data), lib.score_samples),
                 SortValues(SelectSeq(
                     ResultsDf(CreateStatePerformanceData(
                                   biometric_data, demographic_data,
                                   enrollment_data), lib.score_samples),
                     LAMBDA r : r.is_anomaly), "anomaly_score", TRUE))
      [] key = "arima" ->
             ArimaResults(MonthlySeries(biometric_data),
                          GridSearch(1, NoModel, lib.arima), lib.arima)
      [] key = "kmeans" ->
             KMeansResults(CreateStatePerformanceData(
                               biometric_data, demographic_data,
                               enrollment_data),
                           KRange(Len(biometric_data)), lib.kmeans)

\* C26: a step of the anomaly scorer, of the trend module or of the
\* clustering engine leaves the region metric table as it is, leaves every
\* entry of the results map but its own as it is, adds no entry but its own,
\* and the entry it stores is the one it stores when it runs first: in
\* whatever order the handlers are invoked, the table and the entries are
\* the same
C26_OrderIndependent ==
    [][(pc \in Handlers) =>
          (/\ state_performance' = state_performance
           /\ DOMAIN results \subseteq DOMAIN results'
           /\ DOMAIN results' \subseteq (DOMAIN results \cup {EntryOf[pc]})
           /\ \A key \in DOMAIN results \ {EntryOf[pc]} :
                  results'[key] = results[key]
           /\ \A key \in DOMAIN results' :
                  results'[key] = EntryAlone(key))]_vars

\* the handlers ran in the order clustering engine, anomaly scorer, trend
\* module on seven regions and all three entries are stored
C26_Witness ==
    /\ pc = "done"
    /\ Len(state_performance) = 7
    /\ DOMAIN results = {"isolation_forest", "arima", "kmeans"}
    /\ SelectSeq(console, LAMBDA notice :
                     notice \in {"TECHNIQUE 1: ISOLATION FOREST ANOMALY DETECTION",
                                 "TECHNIQUE 2: ARIMA TIME SERIES FORECASTING",
                                 Technique3Notice})
           = <<Technique3Notice,
               "TECHNIQUE 1: ISOLATION FOREST ANOMALY DETECTION",
               "TECHNIQUE 2: ARIMA TIME SERIES FORECASTING">>

----------------------------------------------------------------------------
(* SpecAgain: run_complete_analysis invoked again on the same analyzer *)

\* the three files of the input family: the regions 1..n, the last with
\* counts of its own, and the rows that follow them in the biometric file
Files(n, sb, xb, sd) ==
    [biometric   |-> RegionRows("biometric", n, <<1, 1>>, sb)
                       \o ExtraRows("biometric",
                                    RegionRows("biometric", n, <<1, 1>>, sb),
                                    xb, <<5, 5>>),
     demographic |-> RegionRows("demographic", n, <<1, 1>>, sd),
     enrollment  |-> RegionRows("enrollment", n, <<1, 1, 1>>, <<1, 1, 1>>)]

\* a fresh analyzer whose first invocation is about to read the files
InitAgain ==
    /\ \E n \in {0, 3, MaxAnalysisRegions},
          sb \in {<<1, 1>>, <<40, 60>>, <<-1, 3>>},
          xb \in {"none", "next_month"},
          sd \in {<<1, 1>>, <<-1, -1>>} :
        lib = [files |-> Files(n, sb, xb, sd)]
    /\ biometric_data = lib.files.biometric
    /\ demographic_data = lib.files.demographic
    /\ enrollment_data = lib.files.enrollment
    /\ Constructed
    /\ pc = "analyzer_load_data"

\* the number of invocations that have returned
Completed(notices) ==
    Cardinality({i \in DOMAIN notices : notices[i] = "ANALYSIS COMPLETE!"})

\* run_complete_analysis called once more on the analyzer: load_data reads
\* the same files again and tags the frames; nothing else is assigned
run_complete_analysis_again ==
    /\ pc = "analysis_complete"
    /\ Completed(console) < MaxInvocations
    /\ biometric_data' = WithDataType(lib.files.biometric, "biometric")
    /\ demographic_data' = WithDataType(lib.files.demographic, "demographic")
    /\ enrollment_data' = WithDataType(lib.files.enrollment, "enrollment")
    /\ console' = Append(console, "Loaded records")
    /\ pc' = "data_quality_check"
    /\ UNCHANGED <<lib, state_performance, results, problems_found, locals>>

NextAgain == NextAnalysis \/ run_complete_analysis_again

SpecAgain == InitAgain /\ [][NextAgain]_vars

\* C27: the findings list is fresh in every invocation of the complete
\* analysis: when the first step that can emit a finding starts, the list is
\* empty, so that the list the invocation returns holds the findings of that
\* invocation only and two invocations over the same data return lists of
\* the same length
C27_FreshFindings ==
    /\ pc = "data_quality_check" => problems_found = <<>>
    /\ AnalysisComplete =>
           /\ locals.returned = problems_found
           /\ \A i, j \in DOMAIN locals.returned :
                  locals.returned[i] = locals.returned[j] => i = j

----------------------------------------------------------------------------
(* SpecSpatial: run_complete_analysis on files of many regions *)

\* the biometric counts of region s of n: the same for all regions, growing
\* with s, falling with s, or shared by pairs of neighbours
VolumeCounts(pattern, s, n) ==
    CASE pattern = "equal" -> <<5, 5>>
      [] pattern = "ascending" -> <<s, 0>>
      [] pattern = "descending" -> <<n - s, 1>>
      [] pattern = "paired" -> <<(n - s) \div 2, 0>>

InitSpatial ==
    /\ \E n \in 0..MaxSpatialRegions,
          pattern \in {"equal", "ascending", "descending", "paired"} :
        /\ biometric_data =
               [s \in 1..n |-> BioRow(s, 1, VolumeCounts(pattern, s, n))]
        /\ demographic_data = [s \in 1..n |-> DemoRow(s, 1, <<1, 1>>)]
        /\ enrollment_data = [s \in 1..n |-> EnrollRow(s, 1, <<1, 1, 1>>)]
    /\ lib = LibNone
    /\ Constructed
    /\ pc = "analyzer_load_data"

SpecSpatial == InitSpatial /\ [][NextAnalysis]_vars

\* spatial_comparison has just returned
AfterSpatial == pc = "demographic_segmentation"

\* the total biometric volume of a region: the counts of its rows added up
RECURSIVE Volume(_, _)
Volume(rows, s) ==
    IF rows = <<>> THEN 0
    ELSE (IF Head(rows).state = s
          THEN Head(rows).bio_age_5_17 + Head(rows).bio_age_17_ ELSE 0)
         + Volume(Tail(rows), s)

\* the positions of the underperforming findings in the list
UnderperformingAt ==
    {i \in DOMAIN problems_found :
        problems_found[i].text = UnderperformingFinding(<<>>).text}

\* the regions the last finding of the list names
Listed == problems_found[Len(problems_found)].regions

\* C29: with N >= 1 regions in the biometric dataset the spatial comparison
\* appends exactly one underperforming finding; it names
\* min(N, max(3, floor(0.1 * N))) different regions, in ascending order of
\* their total biometric volume, and no region it leaves out has a smaller
\* volume than one it names
C29_Underperforming ==
    (AfterSpatial /\ States(biometric_data) # {}) =>
        /\ Cardinality(UnderperformingAt) = 1
        /\ Len(problems_found) \in UnderperformingAt
        /\ Len(Listed) = Min(Cardinality(States(biometric_data)),
                             IF Cardinality(States(biometric_data)) \div 10
                                    > 3
                             THEN Cardinality(States(biometric_data)) \div 10
                             ELSE 3)
        /\ Range(Listed) \subseteq States(biometric_data)
        /\ \A i, j \in DOMAIN Listed :
               i < j => /\ Listed[i] # Listed[j]
                        /\ Volume(biometric_data, Listed[i])
                               <= Volume(biometric_data, Listed[j])
        /\ \A s \in States(biometric_data) \ Range(Listed) :
               \A i \in DOMAIN Listed :
                   Volume(biometric_data, Listed[i])
                       <= Volume(biometric_data, s)

\* 41 regions of equal volume: one finding, which names four regions
C29_Witness ==
    /\ AfterSpatial
    /\ Cardinality(States(biometric_data)) = 41
    /\ \A s \in States(biometric_data) : Volume(biometric_data, s) = 10
    /\ Cardinality(UnderperformingAt) = 1
    /\ Len(Listed) = 4

----------------------------------------------------------------------------
(* SpecFetch: one call of fetch_data or of fetch_state_wise_data *)

\* the data_type arguments of the input family
DataTypeArgs == {"demographic", "biometric", "enrollment", "district"}

\* the state names of the input family
StateArgs == {"Goa", "Kerala"}

Formats == {"json", "csv"}

\* a client right after construction and the arguments of the call
InitFetch ==
    /\ \/ \E data_type \in DataTypeArgs, state \in StateArgs \cup {NoValue},
             format \in Formats :
            /\ locals = [data_type |-> data_type, state |-> state,
                         format |-> format]
            /\ pc = "fetch_data"
       \/ \E data_type \in DataTypeArgs, format \in Formats,
             states_list \in SeqsUpTo(StateArgs, MaxStates) :
            /\ locals = [data_type |-> data_type, format |-> format,
                         states_list |-> states_list, position |-> 0,
                         all_data |-> <<>>]
            /\ pc = "fetch_state_wise_data"
    /\ lib = [sent |-> <<>>]
    /\ biometric_data = <<>>
    /\ demographic_data = <<>>
    /\ enrollment_data = <<>>
    /\ state_performance = <<>>
    /\ results = <<>>
    /\ problems_found = <<>>
    /\ console = <<>>

NextFetch ==
    \/ fetch_data
    \/ fetch_state_wise_data_loop
    \/ fetch_state_wise_data_return

SpecFetch == InitFetch /\ [][NextFetch]_vars

\* the call was one of fetch_state_wise_data
StateWise == "states_list" \in DOMAIN locals

\* the positions of the list whose request was answered with status 200 and
\* a body that is not empty and, when JSON was asked for, parses
AnsweredWithData ==
    {k \in DOMAIN lib.sent :
        /\ ~lib.sent[k].response.error
        /\ lib.sent[k].response.status = 200
        /\ lib.sent[k].response.body # "empty"
        /\ locals.format = "json" => lib.sent[k].response.body # "malformed"}

\* C30: fetch_data raises ValueError, with no request sent, for a data_type
\* that is none of 'demographic', 'biometric', 'enrollment', and for these it
\* sends one request and returns, None when the request fails, when the
\* status is not 200 and when the body does not parse; fetch_state_wise_data
\* with one of the three sends one request for each state of the list, in
\* the order of the list, and returns one entry for each state whose fetch
\* returned data, in that order, and none for the others
C30_FetchContract ==
    /\ pc = "raised" =>
           /\ results.raised = "ValueError"
           /\ locals.data_type \notin {"demographic", "biometric", "enrollment"}
           /\ lib.sent = <<>>
    /\ (~StateWise /\ pc = "returned") =>
           /\ locals.data_type \in {"demographic", "biometric", "enrollment"}
           /\ Len(lib.sent) = 1
           /\ (\/ lib.sent[1].response.error
               \/ lib.sent[1].response.status # 200
               \/ /\ locals.format = "json"
                  /\ lib.sent[1].response.body = "malformed")
                  => results.value = None
           /\ results.value # None => results.value.value = lib.sent[1].response.body
    /\ (~StateWise /\ pc # "fetch_data"
          /\ locals.data_type \notin {"demographic", "biometric", "enrollment"})
           => pc = "raised"
    /\ (StateWise /\ pc = "returned"
          /\ locals.data_type \in {"demographic", "biometric", "enrollment"}) =>
           /\ Len(lib.sent) = Len(locals.states_list)
           /\ \A k \in DOMAIN lib.sent :
                  lib.sent[k].request.filters
                      = [name \in {"state"} |-> locals.states_list[k]]
           /\ Len(results.value) = Cardinality(AnsweredWithData)
           /\ \A i \in DOMAIN results.value :
                  \E k \in AnsweredWithData :
                      /\ results.value[i].state = locals.states_list[k]
                      /\ results.value[i].data.value
                             = lib.sent[k].response.body
                      /\ Cardinality({j \in AnsweredWithData : j < k}) = i - 1

\* fetch_state_wise_data returned for the list Goa, Kerala, Goa: three
\* requests, of which the second was answered with status 500; the entries
\* are those of the first and the third
C30_Witness ==
    /\ StateWise
    /\ pc = "returned"
    /\ locals.states_list = <<"Goa", "Kerala", "Goa">>
    /\ locals.format = "json"
    /\ Len(lib.sent) = 3
    /\ lib.sent[2].response.status = 500
    /\ lib.sent[3].response.body = "records"
    /\ Len(results.value) = 2
    /\ results.value[1].state = "Goa"
    /\ results.value[2].state = "Goa"

====
